---- MODULE Spec2Model ----
(***************************************************************************)
(* Conversational Analytics Engine: the Relevance Gate, the Intent         *)
(* Classifier, the deterministic pipeline of SmartAnalyticsAgent and the   *)
(* three-tier orchestrator OpenAIAnalyticsAgent.ask.                       *)
(*                                                                         *)
(* Text is a sequence of one-character strings, so that Python's           *)
(* str.lower, str.strip, str.split and the substring test `a in b` are     *)
(* computed character by character, as the code computes them.             *)
(* Confidences are integers in units of 1/10000 (0.8 is 8000).             *)
(***************************************************************************)
EXTENDS Integers, Sequences, FiniteSets, TLC

(***************************************************************************)
(* Text primitives (Python str methods used by the agents)                 *)
(***************************************************************************)

UpperChars ==
    <<"A","B","C","D","E","F","G","H","I","J","K","L","M",
      "N","O","P","Q","R","S","T","U","V","W","X","Y","Z">>

LowerChars ==
    <<"a","b","c","d","e","f","g","h","i","j","k","l","m",
      "n","o","p","q","r","s","t","u","v","w","x","y","z">>

\* str.lower on one character
LowerChar(c) ==
    IF \E i \in 1..Len(UpperChars) : UpperChars[i] = c
    THEN LowerChars[CHOOSE i \in 1..Len(UpperChars) : UpperChars[i] = c]
    ELSE c

\* str.lower
Lower(s) ==
    SubSeq([i \in 1..Len(s) |-> LowerChar(s[i])], 1, Len(s))

\* the characters str.strip and str.split treat as whitespace
IsSpace(c) ==
    c \in {" ", "\t", "\n"}

SetMin(S) ==
    CHOOSE x \in S : \A y \in S : x <= y

SetMax(S) ==
    CHOOSE x \in S : \A y \in S : x >= y

\* str.strip
Strip(s) ==
    LET keep == {i \in 1..Len(s) : ~IsSpace(s[i])}
    IN  IF keep = {} THEN <<>> ELSE SubSeq(s, SetMin(keep), SetMax(keep))

\* Python's `sub in s` on strings
Contains(sub, s) ==
    \E i \in 0..(Len(s) - Len(sub)) :
        \A k \in 1..Len(sub) : s[i + k] = sub[k]

\* str.replace(old, new) for single characters
ReplaceChar(s, old, new) ==
    [i \in 1..Len(s) |-> IF s[i] = old THEN new ELSE s[i]]

\* the positions where a word of s starts
WordStarts(s) ==
    {i \in 1..Len(s) : ~IsSpace(s[i]) /\ (i = 1 \/ IsSpace(s[i - 1]))}

\* the last position of the word of s that starts at i
WordEnd(s, i) ==
    SetMin({e \in i..Len(s) : e = Len(s) \/ IsSpace(s[e + 1])})

\* str.split() with no argument: the whitespace-separated words, in order
Split(s) ==
    LET starts == WordStarts(s)
        Nth(k) == CHOOSE i \in starts : Cardinality({j \in starts : j <= i}) = k
    IN  [k \in 1..Cardinality(starts) |-> SubSeq(s, Nth(k), WordEnd(s, Nth(k)))]

RECURSIVE JoinFrom(_, _)
JoinFrom(words, i) ==
    IF i > Len(words) THEN <<>>
    ELSE IF i = Len(words) THEN words[i]
    ELSE words[i] \o <<" ">> \o JoinFrom(words, i + 1)

\* ' '.join(words)
Join(words) ==
    JoinFrom(words, 1)

\* Python's `x in list`
InList(x, list) ==
    \E i \in 1..Len(list) : list[i] = x

\* any(keyword in text for keyword in list)
AnyContained(list, text) ==
    \E i \in 1..Len(list) : Contains(list[i], text)

(***************************************************************************)
(* Datasets.  A column has a label and a pandas dtype; a label is a        *)
(* string or not (pandas gives integer labels to a frame built without     *)
(* column names), and `text` is how the label prints.                      *)
(***************************************************************************)

StrLabel(text) ==
    [str |-> TRUE, text |-> text]

IntLabel(text) ==
    [str |-> FALSE, text |-> text]

Column(label, dtype, values) ==
    [label |-> label, dtype |-> dtype, values |-> values, dates |-> dtype = "number"]

\* an object column of date strings: pd.to_datetime parses its cells
DateStrings(label, values) ==
    [label |-> label, dtype |-> "object", values |-> values, dates |-> TRUE]

\* The data frames handed to load_data.  Cells are never null.  `dates` says
\* that pd.to_datetime converts the cells of the column (numbers, and strings
\* that are dates), and such a cell is a day number.
DatasetOf ==
    [ retail  |-> [columns |-> <<
                     Column(StrLabel(<<"p","r","o","d","u","c","t">>), "object",
                            [i \in 1..30 |-> <<"A", "B", "C">>[(i % 3) + 1]]),
                     Column(StrLabel(<<"r","e","v","e","n","u","e">>), "number", [i \in 1..30 |-> 10 * i]),
                     DateStrings(StrLabel(<<"o","r","d","e","r","_","d","a","t","e">>), [i \in 1..30 |-> (i + 2) \div 3]) >>],
      small   |-> [columns |-> <<
                     Column(StrLabel(<<"c","u","s","t","o","m","e","r">>), "object", <<"ann", "bob", "ann">>),
                     Column(StrLabel(<<"a","m","o","u","n","t">>), "number", <<5, 7, 9>>) >>],
      empty   |-> [columns |-> << >>],
      updates |-> [columns |-> <<
                     Column(StrLabel(<<"u","p","d","a","t","e","s">>), "number", [i \in 1..12 |-> i]),
                     Column(StrLabel(<<"r","e","g","i","o","n">>), "object",
                            [i \in 1..12 |-> <<"north", "south">>[(i % 2) + 1]]) >>],
      intcols |-> [columns |-> <<
                     Column(StrLabel(<<"r","e","v","e","n","u","e">>), "number", <<1, 2, 3>>),
                     Column(IntLabel(<<"0">>), "number", <<4, 5, 6>>) >>],
      \* the column a question names is not the first of its type, the product
      \* column is found by inference only, and there are more groups than a
      \* ranking keeps
      orders  |-> [columns |-> <<
                     Column(StrLabel(<<"r","e","g","i","o","n">>), "object",
                            [i \in 1..12 |-> <<"north", "south">>[(i % 2) + 1]]),
                     Column(StrLabel(<<"q","t","y">>), "number", [i \in 1..12 |-> i]),
                     Column(StrLabel(<<"p","r","o","d","u","c","t","_","n","a","m","e">>), "object",
                            [i \in 1..12 |-> <<"P1", "P2", "P3", "P4", "P5", "P6">>[(i % 6) + 1]]),
                     Column(StrLabel(<<"r","e","v","e","n","u","e">>), "number",
                            [i \in 1..12 |-> 200 - 10 * i]),
                     DateStrings(StrLabel(<<"o","r","d","e","r","_","d","a","t","e">>), [i \in 1..12 |-> (i + 2) \div 3]) >>],
      \* a ledger of refunds: the amounts are negative
      refunds |-> [columns |-> <<
                     Column(StrLabel(<<"c","u","s","t","o","m","e","r">>), "object", << "ann", "bob", "ann", "bob" >>),
                     Column(StrLabel(<<"a","m","o","u","n","t">>), "number", << -10, -10, -5, -5 >>),
                     DateStrings(StrLabel(<<"r","e","f","u","n","d","_","d","a","t","e">>), << 1, 2, 3, 4 >>) >>] ]

DatasetIds ==
    DOMAIN DatasetOf

\* self.current_data is None
None ==
    "None"

Columns(data) ==
    IF data = None THEN << >> ELSE DatasetOf[data].columns

\* len(df)
RowCount(data) ==
    IF Columns(data) = << >> THEN 0 ELSE Len(Columns(data)[1].values)

\* df.select_dtypes(include=[dtype]).columns
SelectDtypes(cols, dtype) ==
    SelectSeq(cols, LAMBDA c : c.dtype = dtype)

\* load_data's 'datetime' list: the test `is_datetime64_any_dtype(df[col]) or
\* 'date' in col.lower()` of one column; col.lower() raises on a non-string label
IsDateColumn(c) ==
    c.dtype = "datetime" \/ Contains(<<"d","a","t","e">>, Lower(c.label.text))

\* load_data raises AttributeError when the 'datetime' comprehension reaches a
\* non-string label whose dtype is not datetime ('date' in col.lower())
LoadRaises(data) ==
    \E i \in 1..Len(Columns(data)) :
        /\ Columns(data)[i].dtype # "datetime"
        /\ ~Columns(data)[i].label.str

Labels(cols) ==
    [i \in 1..Len(cols) |-> cols[i].label.text]

\* self.data_summary as load_data builds it (shape and the column lists)
Summary(data) ==
    LET cols == Columns(data)
    IN  [ rows        |-> RowCount(data),
          all         |-> Labels(cols),
          numeric     |-> Labels(SelectDtypes(cols, "number")),
          categorical |-> Labels(SelectDtypes(cols, "object")),
          datetime    |-> Labels(SelectSeq(cols, IsDateColumn)) ]

(***************************************************************************)
(* The questions asked: the edge cases of the test suite (empty,           *)
(* whitespace, special and control characters), greetings in several       *)
(* cases, off-topic and vague questions, analytic questions of each kind,  *)
(* an analytic question with 'hi' inside a word, a question with an        *)
(* off-topic keyword between data keywords, a question with trigger words  *)
(* of two kinds and a question that is a phrase of the classifier's        *)
(* corpus.  A question is named by its index.                              *)
(***************************************************************************)

Questions ==
    << <<>>,
       <<" "," "," ">>,
       <<"h","i">>,
       <<" ","H","e","l","l","o"," ">>,
       <<"T","H","A","N","K","S">>,
       <<"w","h","a","t"," ","i","s"," ","t","h","e"," ","w","e","a","t","h","e","r">>,
       <<"h","e","l","p">>,
       <<"!","@","#">>,
       <<"t","o","t","a","l"," ","r","e","v","e","n","u","e">>,
       <<"t","o","p"," ","p","r","o","d","u","c","t">>,
       <<"r","e","v","e","n","u","e"," ","t","r","e","n","d">>,
       <<"d","o"," ","i","t"," ","f","o","r"," ","m","e"," ","n","o","w">>,
       <<"\t","\n">>,
       <<"!"," ","@"," ","#"," ","$"," ","%">>,
       <<"w","o","r","s","t"," ","p","r","o","d","u","c","t">>,
       <<"h","e","l","p"," ","m","e"," ","d","o"," ","i","t"," ","f","o","r"," ","u","s">>,
       <<"w","h","i","c","h"," ","p","r","o","d","u","c","t"," ","h","a","s"," ","t","h","e"," ","m","o","s","t"," ","r","e","v","e","n","u","e">>,
       <<"r","e","v","e","n","u","e"," ","w","e","a","t","h","e","r"," ","t","r","e","n","d">>,
       <<"r","e","v","e","n","u","e"," ","o","v","e","r"," ","t","i","m","e"," ","t","o","t","a","l">>,
       <<"c","u","s","t","o","m","e","r","s"," ","o","v","e","r"," ","t","i","m","e">> >>

QuestionIds ==
    1..Len(Questions)

(***************************************************************************)
(* Relevance Gate: SmartAnalyticsAgent._check_if_vague_or_irrelevant       *)
(***************************************************************************)

greetings ==
    << <<"h","i">>, <<"h","e","l","l","o">>, <<"h","e","y">>, <<"t","h","a","n","k","s">>, <<"t","h","a","n","k"," ","y","o","u">>, <<"b","y","e">>, <<"g","o","o","d","b","y","e">> >>

irrelevant_keywords ==
    << <<"w","e","a","t","h","e","r">>, <<"n","e","w","s">>, <<"s","p","o","r","t","s">>, <<"p","o","l","i","t","i","c","s">>, <<"r","e","c","i","p","e">>, <<"m","o","v","i","e">>,
       <<"m","u","s","i","c">>, <<"g","a","m","e">>, <<"c","e","l","e","b","r","i","t","y">>, <<"j","o","k","e">>, <<"s","t","o","r","y">>, <<"p","o","e","m">>,
       <<"s","o","n","g">>, <<"h","e","l","l","o">>, <<"h","i">>, <<"h","o","w"," ","a","r","e"," ","y","o","u">>, <<"t","h","a","n","k"," ","y","o","u">>, <<"t","h","a","n","k","s">>,
       <<"b","y","e">>, <<"g","o","o","d","b","y","e">> >>

vague_patterns ==
    << <<"t","e","l","l"," ","m","e"," ","s","o","m","e","t","h","i","n","g">>, <<"a","n","y","t","h","i","n","g">>, <<"w","h","a","t"," ","c","a","n"," ","y","o","u"," ","d","o">>, <<"h","e","l","p">>,
       <<"w","h","a","t"," ","i","s"," ","t","h","i","s">>, <<"e","x","p","l","a","i","n">>, <<"d","e","s","c","r","i","b","e"," ","t","h","i","s">>, <<"t","e","l","l"," ","m","e"," ","a","b","o","u","t">> >>

data_keywords ==
    << <<"t","o","t","a","l">>, <<"s","u","m">>, <<"a","v","e","r","a","g","e">>, <<"m","e","a","n">>, <<"c","o","u","n","t">>, <<"h","o","w"," ","m","a","n","y">>,
       <<"s","h","o","w">>, <<"t","o","p">>, <<"b","o","t","t","o","m">>, <<"b","e","s","t">>, <<"w","o","r","s","t">>, <<"t","r","e","n","d">>,
       <<"f","o","r","e","c","a","s","t">>, <<"p","r","e","d","i","c","t">>, <<"c","o","m","p","a","r","e">>, <<"a","n","a","l","y","s","i","s">>, <<"r","e","v","e","n","u","e">>,
       <<"s","a","l","e","s">>, <<"c","u","s","t","o","m","e","r">>, <<"p","r","o","d","u","c","t">> >>

\* len(question_lower) < 30 in the vague-pattern rule
VagueMaxChars ==
    30

\* word_count < 5 in the short-question rule
ShortQuestionWords ==
    5

\* the number of suggestions returned (suggestions[:6])
MaxSuggestions ==
    6

\* [c for c in cols if any(word in c.lower() for word in words)]
ColumnsLike(names, words) ==
    SelectSeq(names, LAMBDA n : AnyContained(words, Lower(n)))

Suggestion(kind, column) ==
    [kind |-> kind, column |-> column]

\* `if len(suggestions) < 3: suggestions.extend([...])`
WithGeneric(specific) ==
    IF Len(specific) < 3
    THEN specific \o << Suggestion("summary", <<>>), Suggestion("key_statistics", <<>>),
                        Suggestion("insights", <<>>) >>
    ELSE specific

\* `return suggestions[:6]`
FirstSuggestions(all) ==
    SubSeq(all, 1, IF Len(all) < MaxSuggestions THEN Len(all) ELSE MaxSuggestions)

\* _generate_suggested_questions; summary is {} for None, else {the summary}
GenerateSuggestedQuestions(data, summary) ==
    IF data = None \/ summary = {}
    THEN << Suggestion("total_revenue", <<>>), Suggestion("top_5_products", <<>>),
            Suggestion("sales_trend", <<>>) >>
    ELSE
      LET cols    == CHOOSE s \in summary : TRUE
          num     == cols.numeric
          cat     == cols.categorical
          dates   == cols.datetime
          revenue == ColumnsLike(num, << <<"r","e","v","e","n","u","e">>, <<"s","a","l","e","s">>, <<"a","m","o","u","n","t">>, <<"t","o","t","a","l">>, <<"p","r","i","c","e">> >>)
          product == ColumnsLike(cat, << <<"p","r","o","d","u","c","t">>, <<"i","t","e","m">>, <<"c","a","t","e","g","o","r","y">>, <<"t","y","p","e">> >>)
          segment == ColumnsLike(cat, << <<"r","e","g","i","o","n">>, <<"l","o","c","a","t","i","o","n">>, <<"s","e","g","m","e","n","t">>, <<"g","r","o","u","p">>, <<"c","a","t","e","g","o","r","y">> >>)
          cust    == ColumnsLike(cat, << <<"c","u","s","t","o","m","e","r">>, <<"c","l","i","e","n","t">>, <<"u","s","e","r">> >>)
          Nice(n) == ReplaceChar(n, "_", " ")
          s1 == IF revenue # <<>> THEN << Suggestion("total", Nice(revenue[1])) >> ELSE <<>>
          s2 == IF product # <<>> /\ num # <<>>
                THEN << Suggestion("top_5", Nice(product[1])) >> ELSE <<>>
          s3 == IF segment # <<>> /\ num # <<>>
                THEN << Suggestion("compare", Nice(segment[1])) >> ELSE <<>>
          s4 == IF dates # <<>> /\ num # <<>>
                THEN << Suggestion("trends", Nice(num[1])) >> ELSE <<>>
          s5 == IF num # <<>> THEN << Suggestion("average", Nice(num[1])) >> ELSE <<>>
          s6 == IF cust # <<>> THEN << Suggestion("unique", Nice(cust[1])) >> ELSE <<>>
      IN  FirstSuggestions(WithGeneric(s1 \o s2 \o s3 \o s4 \o s5 \o s6))

\* the loop `for col in self.current_data.columns:` of the gate: it stops at the
\* first column the question mentions (break), and col.lower() raises
\* AttributeError on a label that is not a string
RECURSIVE ColumnScan(_, _, _)
ColumnScan(cols, question_lower, i) ==
    IF i > Len(cols) THEN "not_mentioned"
    ELSE IF ~cols[i].label.str THEN "raised"
    ELSE IF \/ Contains(Lower(cols[i].label.text), question_lower)
            \/ Contains(Lower(ReplaceChar(cols[i].label.text, "_", " ")), question_lower)
         THEN "mentioned"
         ELSE ColumnScan(cols, question_lower, i + 1)

\* the first keyword of irrelevant_keywords found in the question
FirstIrrelevant(question_lower) ==
    irrelevant_keywords[SetMin({i \in 1..Len(irrelevant_keywords) :
                                   Contains(irrelevant_keywords[i], question_lower)})]

GateResult(raised, is_vague, rule, keyword, suggestions) ==
    [ raised |-> raised, is_vague |-> is_vague, rule |-> rule, keyword |-> keyword,
      suggested_questions |-> suggestions ]

\* a gate whose off-topic rule gives way to a data keyword in the question
GateRuleDataFirst(question_lower, data) ==
    LET scan == IF data = None THEN "not_mentioned"
                ELSE ColumnScan(Columns(data), question_lower, 1)
    IN  IF InList(question_lower, greetings) THEN "greeting"
        ELSE IF /\ AnyContained(irrelevant_keywords, question_lower)
                /\ ~AnyContained(data_keywords, question_lower)
        THEN "irrelevant"
        ELSE IF AnyContained(vague_patterns, question_lower)
                /\ Len(question_lower) < VagueMaxChars
        THEN "vague"
        ELSE IF scan = "raised" THEN "raised"
        ELSE IF /\ Len(Split(question_lower)) < ShortQuestionWords
                /\ ~(AnyContained(data_keywords, question_lower) \/ scan = "mentioned")
        THEN "short"
        ELSE "valid"

\* the rule of _check_if_vague_or_irrelevant that decides, in the order of the
\* code; "raised" when the column loop raises, "valid" when no rule rejects
GateRule(question_lower, data) ==
    LET scan == IF data = None THEN "not_mentioned"
                ELSE ColumnScan(Columns(data), question_lower, 1)
    IN  IF InList(question_lower, greetings) THEN "greeting"
        ELSE IF AnyContained(irrelevant_keywords, question_lower) THEN "irrelevant"
        ELSE IF AnyContained(vague_patterns, question_lower)
                /\ Len(question_lower) < VagueMaxChars
        THEN "vague"
        ELSE IF scan = "raised" THEN "raised"
        ELSE IF /\ Len(Split(question_lower)) < ShortQuestionWords
                /\ ~(AnyContained(data_keywords, question_lower) \/ scan = "mentioned")
        THEN "short"
        ELSE "valid"

\* the dict the decisive rule returns: every rejection carries the suggested
\* questions, the last `return {'is_vague': False}` carries none
GateReturn(rule, question_lower, suggestions) ==
    IF rule = "raised" THEN GateResult(TRUE, FALSE, rule, <<>>, <<>>)
    ELSE IF rule = "valid" THEN GateResult(FALSE, FALSE, rule, <<>>, <<>>)
    ELSE GateResult(FALSE, TRUE, rule,
                    IF rule = "irrelevant" THEN FirstIrrelevant(question_lower) ELSE <<>>,
                    suggestions)

\* _check_if_vague_or_irrelevant(question) with self.current_data = data and
\* self.data_summary = summary
CheckIfVagueOrIrrelevant(question, data, summary) ==
    GateReturn(GateRule(Strip(Lower(question)), data), Strip(Lower(question)),
               GenerateSuggestedQuestions(data, summary))

(***************************************************************************)
(* Intent Classifier: RobustIntentMatcher.  The synonym dictionary and the *)
(* pattern corpus are the repository's, restricted (in their order) to     *)
(* the synonym groups that a word of Questions selects and to the         *)
(* patterns that win for Questions and their competitors; the corpus       *)
(* repeats patterns (one generator loop per dimension), and one repeated   *)
(* pattern is kept.                                                        *)
(***************************************************************************)

SynonymGroup(key, terms) ==
    [key |-> key, terms |-> terms]

\* _build_synonym_dictionary
synonyms ==
    << SynonymGroup(<<"t","o","t","a","l">>, << <<"s","u","m">>, <<"a","g","g","r","e","g","a","t","e">>, <<"o","v","e","r","a","l","l">>, <<"c","o","m","b","i","n","e","d">>,
                                  <<"c","u","m","u","l","a","t","i","v","e">>, <<"g","r","a","n","d"," ","t","o","t","a","l">>, <<"a","l","l">> >>),
       SynonymGroup(<<"t","o","p">>, << <<"b","e","s","t">>, <<"h","i","g","h","e","s","t">>, <<"m","a","x","i","m","u","m">>, <<"g","r","e","a","t","e","s","t">>,
                                <<"l","e","a","d","i","n","g">>, <<"f","i","r","s","t">>, <<"m","o","s","t">>, <<"l","a","r","g","e","s","t">> >>),
       SynonymGroup(<<"b","o","t","t","o","m">>, << <<"w","o","r","s","t">>, <<"l","o","w","e","s","t">>, <<"m","i","n","i","m","u","m">>, <<"s","m","a","l","l","e","s","t">>,
                                   <<"l","a","s","t">>, <<"l","e","a","s","t">> >>),
       SynonymGroup(<<"t","r","e","n","d">>, << <<"p","a","t","t","e","r","n">>, <<"c","h","a","n","g","e"," ","o","v","e","r"," ","t","i","m","e">>, <<"p","r","o","g","r","e","s","s","i","o","n">>,
                                  <<"m","o","v","e","m","e","n","t">>, <<"t","r","a","j","e","c","t","o","r","y">> >>),
       SynonymGroup(<<"r","e","v","e","n","u","e">>, << <<"s","a","l","e","s">>, <<"i","n","c","o","m","e">>, <<"e","a","r","n","i","n","g","s">>, <<"p","r","o","c","e","e","d","s">>,
                                    <<"r","e","c","e","i","p","t","s">>, <<"t","u","r","n","o","v","e","r">> >>),
       SynonymGroup(<<"p","r","o","d","u","c","t">>, << <<"i","t","e","m">>, <<"g","o","o","d">>, <<"m","e","r","c","h","a","n","d","i","s","e">>, <<"a","r","t","i","c","l","e">>,
                                    <<"s","k","u">> >>) >>

PatternEntry(intent, pattern, confidence) ==
    [intent |-> intent, pattern |-> pattern, confidence |-> confidence]

\* _build_intent_database, flattened in iteration order (intent by intent, pattern
\* by pattern); confidence in units of 1/10000
intent_patterns ==
    << PatternEntry("aggregation", <<"w","h","a","t"," ","i","s"," ","t","h","e"," ","t","o","t","a","l"," ","r","e","v","e","n","u","e">>, 9500),
       PatternEntry("aggregation", <<"t","o","t","a","l"," ","r","e","v","e","n","u","e">>, 9000),
       PatternEntry("aggregation", <<"a","l","l"," ","r","e","v","e","n","u","e">>, 8000),
       PatternEntry("aggregation", <<"o","v","e","r","a","l","l"," ","c","o","s","t">>, 8500),
       PatternEntry("aggregation", <<"w","h","a","t"," ","i","s"," ","t","h","e"," ","t","o","t","a","l"," ","u","s","e","r","s">>, 9500),
       PatternEntry("aggregation", <<"s","h","o","w"," ","m","e"," ","t","o","t","a","l"," ","u","s","e","r","s">>, 9000),
       PatternEntry("ranking", <<"t","o","p"," ","p","r","o","d","u","c","t">>, 9000),
       PatternEntry("ranking", <<"w","h","i","c","h"," ","p","r","o","d","u","c","t"," ","a","r","e"," ","b","e","s","t">>, 9000),
       PatternEntry("ranking", <<"b","o","t","t","o","m"," ","5"," ","p","r","o","d","u","c","t">>, 9500),
       PatternEntry("ranking", <<"w","o","r","s","t"," ","p","r","o","d","u","c","t">>, 9000),
       PatternEntry("ranking", <<"w","h","i","c","h"," ","p","r","o","d","u","c","t"," ","a","r","e"," ","b","e","s","t">>, 9000),
       PatternEntry("ranking", <<"s","h","o","w"," ","m","e"," ","t","o","p"," ","5"," ","i","t","e","m">>, 9000),
       PatternEntry("ranking", <<"s","h","o","w"," ","m","e"," ","t","o","p"," ","5"," ","s","t","o","r","e">>, 9000),
       PatternEntry("ranking", <<"t","o","p"," ","c","h","a","n","n","e","l">>, 9000),
       PatternEntry("trend_analysis", <<"r","e","v","e","n","u","e"," ","o","v","e","r"," ","t","i","m","e">>, 9500),
       PatternEntry("trend_analysis", <<"r","e","v","e","n","u","e"," ","o","v","e","r"," ","o","v","e","r"," ","t","i","m","e">>, 9000),
       PatternEntry("trend_analysis", <<"p","r","o","f","i","t"," ","o","v","e","r"," ","t","i","m","e">>, 9500),
       PatternEntry("trend_analysis", <<"c","u","s","t","o","m","e","r","s"," ","o","v","e","r"," ","t","i","m","e">>, 9500),
       PatternEntry("statistics", <<"s","t","a","t","s">>, 8500),
       PatternEntry("statistics", <<"s","u","m","m","a","r","y">>, 9000),
       PatternEntry("diagnostic", <<"w","h","y">>, 9000),
       PatternEntry("diagnostic", <<"r","e","a","s","o","n"," ","f","o","r">>, 9000) >>

\* the first synonym group a word selects (`word in synonyms or word == key`,
\* then break), 0 when none does
FirstGroup(word) ==
    LET hits == {g \in 1..Len(synonyms) :
                    InList(word, synonyms[g].terms) \/ word = synonyms[g].key}
    IN  IF hits = {} THEN 0 ELSE SetMin(hits)

RECURSIVE ExpandWords(_, _)
ExpandWords(words, i) ==
    IF i > Len(words) THEN <<>>
    ELSE LET g == FirstGroup(words[i])
         IN  << words[i] >> \o (IF g = 0 THEN <<>> ELSE synonyms[g].terms)
                \o ExpandWords(words, i + 1)

\* _expand_with_synonyms
ExpandWithSynonyms(query) ==
    Join(ExpandWords(Split(query), 1))

\* the length of the common run of a[i..ahi] and b[j..bhi]
CommonRun(a, b, i, j, ahi, bhi) ==
    LET room == IF ahi - i < bhi - j THEN ahi - i + 1 ELSE bhi - j + 1
    IN  SetMax({k \in 0..room : \A t \in 0..(k - 1) : a[i + t] = b[j + t]})

\* difflib.SequenceMatcher.find_longest_match on a[alo..ahi], b[blo..bhi] (no
\* junk: autojunk needs len(b) >= 200): the longest block, of those the one that
\* starts first in a, of those the one that starts first in b
FindLongestMatch(a, b, alo, ahi, blo, bhi) ==
    LET cands == {c \in (alo..ahi) \X (blo..bhi) : a[c[1]] = b[c[2]]}
    IN  IF cands = {} THEN [i |-> alo, j |-> blo, k |-> 0]
        ELSE LET runs == [c \in cands |-> CommonRun(a, b, c[1], c[2], ahi, bhi)]
                 k    == SetMax({runs[c] : c \in cands})
                 i    == SetMin({c[1] : c \in {d \in cands : runs[d] = k}})
                 j    == SetMin({c[2] : c \in {d \in cands : d[1] = i /\ runs[d] = k}})
             IN  [i |-> i, j |-> j, k |-> k]

\* the total size of difflib's get_matching_blocks: the longest match, then the
\* same to its left and to its right
RECURSIVE MatchedChars(_, _, _, _, _, _)
RECURSIVE MatchedAround(_, _, _, _, _, _, _)
MatchedChars(a, b, alo, ahi, blo, bhi) ==
    MatchedAround(a, b, alo, ahi, blo, bhi, FindLongestMatch(a, b, alo, ahi, blo, bhi))

\* the same, given the longest match m of a[alo..ahi] and b[blo..bhi]
MatchedAround(a, b, alo, ahi, blo, bhi, m) ==
    IF m.k = 0 THEN 0
    ELSE m.k
         + (IF alo < m.i /\ blo < m.j
            THEN MatchedChars(a, b, alo, m.i - 1, blo, m.j - 1) ELSE 0)
         + (IF m.i + m.k <= ahi /\ m.j + m.k <= bhi
            THEN MatchedChars(a, b, m.i + m.k, ahi, m.j + m.k, bhi) ELSE 0)

\* 1.0 in the unit of confidences and similarities (1/10000)
One ==
    100 * 100

\* SequenceMatcher(None, a, b).ratio() = 2.0 * matches / (len(a) + len(b))
Ratio(a, b) ==
    IF Len(a) + Len(b) = 0 THEN One
    ELSE (2 * MatchedChars(a, b, 1, Len(a), 1, Len(b)) * One) \div (Len(a) + Len(b))

WordSet(text) ==
    {Split(text)[i] : i \in 1..Len(Split(text))}

\* _calculate_similarity
CalculateSimilarity(text1, text2) ==
    IF text1 = text2 THEN One
    ELSE IF Contains(text2, text1) \/ Contains(text1, text2) THEN (95 * One) \div 100
    ELSE LET words1  == WordSet(text1)
             words2  == WordSet(text2)
             larger  == IF Cardinality(words1) > Cardinality(words2)
                        THEN Cardinality(words1) ELSE Cardinality(words2)
             overlap == (Cardinality(words1 \cap words2) * One) \div larger
         IN  (Ratio(text1, text2) * 6 + overlap * 4) \div 10

\* score = similarity * pattern_confidence of corpus entry n
Score(expanded_query, n) ==
    (CalculateSimilarity(expanded_query, intent_patterns[n].pattern)
        * intent_patterns[n].confidence) \div One

\* the scores of the corpus entries, in the order of the corpus
Scores(expanded_query) ==
    LET scored == [n \in 1..Len(intent_patterns) |-> Score(expanded_query, n)]
    IN  SubSeq(scored, 1, Len(intent_patterns))

\* the entry the loop of match_intent ends with, given its score
BestOf(scores, best_score) ==
    IF best_score = 0
    THEN [intent |-> "unknown", confidence |-> 0, entry |-> 0]
    ELSE [intent |-> intent_patterns[SetMin({m \in 1..Len(scores) :
                                               scores[m] = best_score})].intent,
          confidence |-> best_score,
          entry |-> SetMin({m \in 1..Len(scores) : scores[m] = best_score})]

BestMatch(scores) ==
    BestOf(scores, SetMax({scores[n] : n \in 1..Len(scores)} \cup {0}))

\* match_intent(query): the loop over the corpus keeps the best entry so far and
\* replaces it only by a strictly greater score (best_score starts at 0.0, the
\* intent at 'unknown'), so the first entry with the greatest score wins, and
\* nothing wins when no score is above zero
MatchIntent(query) ==
    BestMatch(Scores(ExpandWithSynonyms(Strip(Lower(query)))))

(***************************************************************************)
(* Deterministic pipeline: SmartAnalyticsAgent._analyze_intent,            *)
(* _execute_smart_analytics, _auto_generate_charts, the answer templates,  *)
(* the recommendations and _calculate_confidence                           *)
(***************************************************************************)

\* self.intent_matcher.match_intent(question) of every question asked.  The
\* classifier has no state, so the value is computed once per question.
matched_intents ==
    LET matched == [q \in QuestionIds |-> MatchIntent(Questions[q])]
    IN  SubSeq(matched, 1, Len(Questions))

QuestionIndex(question) ==
    CHOOSE q \in QuestionIds : Questions[q] = question

\* the if/elif chain of _analyze_intent that overrides the matched intent by
\* keywords found in the question: <<question_type, visualization_type>>
DetectQuestionType(question_lower, matched_intent) ==
    IF AnyContained(<< <<"t","o","t","a","l">>, <<"s","u","m">>, <<"h","o","w"," ","m","u","c","h">>, <<"h","o","w"," ","m","a","n","y">> >>, question_lower)
    THEN << "aggregation", "metric_card" >>
    ELSE IF AnyContained(<< <<"t","o","p">>, <<"b","e","s","t">>, <<"h","i","g","h","e","s","t">>, <<"m","o","s","t">>, <<"b","o","t","t","o","m">>,
                            <<"w","o","r","s","t">>, <<"l","o","w","e","s","t">> >>, question_lower)
    THEN << "ranking", "bar_chart" >>
    ELSE IF AnyContained(<< <<"t","r","e","n","d">>, <<"o","v","e","r"," ","t","i","m","e">>, <<"t","i","m","e"," ","s","e","r","i","e","s">>, <<"c","h","a","n","g","e">> >>,
                         question_lower)
    THEN << "trend_analysis", "line_chart" >>
    ELSE IF AnyContained(<< <<"w","h","y">>, <<"r","e","a","s","o","n">>, <<"c","a","u","s","e">>, <<"d","r","o","p">>, <<"d","e","c","r","e","a","s","e">>,
                            <<"i","n","c","r","e","a","s","e">> >>, question_lower)
    THEN << "diagnostic", "multiple" >>
    ELSE IF AnyContained(<< <<"f","o","r","e","c","a","s","t">>, <<"p","r","e","d","i","c","t">>, <<"f","u","t","u","r","e">>, <<"n","e","x","t">> >>, question_lower)
    THEN << "predictive", "forecast_chart" >>
    ELSE IF AnyContained(<< <<"r","e","c","o","m","m","e","n","d">>, <<"s","h","o","u","l","d">>, <<"o","p","t","i","m","i","z","e">>, <<"i","m","p","r","o","v","e">> >>,
                         question_lower)
    THEN << "prescriptive", "comparison" >>
    ELSE IF AnyContained(<< <<"c","o","m","p","a","r","e">>, <<"v","e","r","s","u","s">>, <<"v","s">>, <<"b","e","t","w","e","e","n">>, <<"d","i","f","f","e","r","e","n","c","e">> >>,
                         question_lower)
    THEN << "comparison", "grouped_bar" >>
    ELSE IF AnyContained(<< <<"a","v","e","r","a","g","e">>, <<"m","e","a","n">>, <<"m","e","d","i","a","n">> >>, question_lower)
    THEN << "statistics", "distribution" >>
    ELSE << matched_intent, None >>

\* `col.lower() in question_lower or col.replace('_', ' ').lower() in question_lower`
ColumnNamed(c, question_lower) ==
    \/ Contains(Lower(c.label.text), question_lower)
    \/ Contains(Lower(ReplaceChar(c.label.text, "_", " ")), question_lower)

\* one `if any(word in question_lower ...)` block of the inference of target
\* columns: the first column whose name contains one of `stems`
InferColumns(cols, question_lower, words, stems) ==
    IF AnyContained(words, question_lower)
    THEN LET hits == SelectSeq(cols, LAMBDA c : AnyContained(stems, Lower(c.label.text)))
         IN  IF hits = << >> THEN << >> ELSE << hits[1].label.text >>
    ELSE << >>

\* _analyze_intent(question) on self.current_data = data, after
\* `matched_intent, confidence = self.intent_matcher.match_intent(question)`
\* gave `matched`.  The loop over
\* df.columns calls col.lower() on every column (no break), so it raises on a
\* label that is not a string.
AnalyzeMatched(question, data, matched) ==
    LET question_lower == Lower(question)
        cols     == Columns(data)
        detected == DetectQuestionType(question_lower, matched.intent)
        named    == Labels(SelectSeq(cols, LAMBDA c : ColumnNamed(c, question_lower)))
        inferred ==
            InferColumns(cols, question_lower, << <<"r","e","v","e","n","u","e">>, <<"s","a","l","e","s">>, <<"m","o","n","e","y">>, <<"p","r","i","c","e">> >>,
                         << <<"r","e","v","e","n","u","e">>, <<"s","a","l","e","s">>, <<"p","r","i","c","e">> >>)
            \o InferColumns(cols, question_lower, << <<"p","r","o","d","u","c","t">>, <<"i","t","e","m">> >>,
                            << <<"p","r","o","d","u","c","t">>, <<"i","t","e","m">> >>)
            \o InferColumns(cols, question_lower, << <<"c","u","s","t","o","m","e","r">>, <<"c","l","i","e","n","t">>, <<"u","s","e","r">> >>,
                            << <<"c","u","s","t","o","m","e","r">>, <<"c","l","i","e","n","t">>, <<"u","s","e","r">> >>)
            \o InferColumns(cols, question_lower, << <<"r","e","g","i","o","n">>, <<"l","o","c","a","t","i","o","n">>, <<"a","r","e","a">> >>,
                            << <<"r","e","g","i","o","n">>, <<"l","o","c","a","t","i","o","n">> >>)
    IN  IF \E i \in 1..Len(cols) : ~cols[i].label.str
        THEN [ raised |-> TRUE, question_type |-> "unknown", confidence |-> 0,
               matched_intent |-> matched.intent, target_columns |-> << >>,
               columns_named |-> FALSE, visualization_type |-> None ]
        ELSE [ raised |-> FALSE,
               question_type |-> detected[1],
               confidence |-> matched.confidence,
               matched_intent |-> matched.intent,
               target_columns |-> IF named # << >> THEN named ELSE inferred,
               columns_named |-> named # << >>,
               visualization_type |-> detected[2] ]

AnalyzeIntent(question, data) ==
    AnalyzeMatched(question, data, matched_intents[QuestionIndex(question)])

\* the position in cols of the column labelled `text`, 0 when there is none
ColumnIndex(cols, text) ==
    LET hits == {i \in 1..Len(cols) : cols[i].label.text = text}
    IN  IF hits = {} THEN 0 ELSE SetMin(hits)

\* next((c for c in target_cols if c in df.select_dtypes(dtype).columns), None),
\* and failing that the first column of that dtype; 0 when there is none
ResolveColumn(cols, target_columns, dtype) ==
    LET named == {k \in 1..Len(target_columns) :
                     /\ ColumnIndex(cols, target_columns[k]) # 0
                     /\ cols[ColumnIndex(cols, target_columns[k])].dtype = dtype}
        typed == {i \in 1..Len(cols) : cols[i].dtype = dtype}
    IN  IF named # {} THEN ColumnIndex(cols, target_columns[SetMin(named)])
        ELSE IF typed # {} THEN SetMin(typed)
        ELSE 0

Distinct(values) ==
    {values[i] : i \in 1..Len(values)}

\* the sum of values[i] over the rows i of `rows`
RECURSIVE SumOver(_, _)
SumOver(values, rows) ==
    IF rows = {} THEN 0
    ELSE LET i == SetMin(rows) IN values[i] + SumOver(values, rows \ {i})

\* df.groupby(date_col)[value_col].sum(): the sums by distinct date, in
\* chronological order
DailySums(dates, values) ==
    LET days   == Distinct(dates)
        sorted == SubSeq([k \in 1..Cardinality(days) |->
                             CHOOSE d \in days : Cardinality({e \in days : e <= d}) = k],
                         1, Cardinality(days))
        sums   == [k \in 1..Len(sorted) |->
                     SumOver(values, {i \in 1..Len(dates) : dates[i] = sorted[k]})]
    IN  SubSeq(sums, 1, Len(sorted))

\* 'increasing' / 'decreasing' / 'stable' from the means of the two halves of the
\* series: change_pct = (second - first) / first * 100 if first > 0 else 0, with
\* first = s1 / n1 and second = s2 / n2, compared to +5 and -5 without dividing
TrendDirection(daily) ==
    LET n  == Len(daily)
        n1 == n \div 2
        n2 == n - n1
        s1 == SumOver(daily, 1..n1)
        s2 == SumOver(daily, (n1 + 1)..n)
    IN  IF s1 <= 0 THEN "stable"
        ELSE IF 100 * (s2 * n1 - s1 * n2) > 5 * s1 * n2 THEN "increasing"
        ELSE IF 100 * (s2 * n1 - s1 * n2) < (-5) * s1 * n2 THEN "decreasing"
        ELSE "stable"

\* results of _execute_smart_analytics: `keys` are the keys of results['data'],
\* `entries` the number of entries of the ranking, the trend or the comparison.
\* `labels` and `values` are the entries in result order (the keys and values of
\* the ranking, the dates and values of the trend, the categories and sums of
\* the segments); category_column and value_column are the labels of the
\* columns computed on (<< >> for none, else << label >>); `bottom` is the
\* ranking's direction ('bottom' rather than 'top').
Analytics(raised, type, keys, entries, direction) ==
    [ raised |-> raised, type |-> type, keys |-> keys, entries |-> entries,
      direction |-> direction, labels |-> << >>, values |-> << >>,
      category_column |-> << >>, value_column |-> << >>, bottom |-> FALSE ]

\* the entries of a result and the columns they were computed on
WithEntries(analytics, labels, values, category_col, value_col) ==
    [ analytics EXCEPT !.labels = labels, !.values = values,
                       !.category_column = << category_col.label.text >>,
                       !.value_column = << value_col.label.text >> ]

\* the cells of the object columns of DatasetOf in the order Python compares
\* strings (upper case before lower case), which is the order groupby lists its
\* groups in
SortedCells ==
    << "A", "B", "C", "P1", "P2", "P3", "P4", "P5", "P6", "ann", "bob", "north", "south" >>

CellRank(cell) ==
    CHOOSE k \in 1..Len(SortedCells) : SortedCells[k] = cell

\* df.groupby(cat_col)[num_col].sum() at one group
GroupSum(cats, values, group) ==
    SumOver(values, {i \in 1..Len(cats) : cats[i] = group})

\* group g comes before group h in sort_values(ascending): by sum, and groups
\* of equal sum stay in the order of groupby
SortsBefore(cats, values, ascending, g, h) ==
    \/ /\ ascending
       /\ GroupSum(cats, values, g) < GroupSum(cats, values, h)
    \/ /\ ~ascending
       /\ GroupSum(cats, values, g) > GroupSum(cats, values, h)
    \/ /\ GroupSum(cats, values, g) = GroupSum(cats, values, h)
       /\ CellRank(g) < CellRank(h)

\* the index of df.groupby(cat_col)[num_col].sum().sort_values(ascending=ascending)
SortValues(cats, values, ascending) ==
    LET groups == Distinct(cats)
    IN  SubSeq([k \in 1..Cardinality(groups) |->
                   CHOOSE g \in groups :
                       Cardinality({h \in groups :
                                       SortsBefore(cats, values, ascending, h, g)}) = k - 1],
               1, Cardinality(groups))

\* the index of df.groupby(cat_col): the groups in the order of their keys
GroupKeys(cats) ==
    SortValues(cats, [i \in 1..Len(cats) |-> 0], TRUE)

\* the largest number of groups a ranking keeps (grouped.head(5))
RankingSize ==
    5

\* series.head(n) of a sequence
HeadOf(seq, n) ==
    SubSeq(seq, 1, IF Len(seq) < n THEN Len(seq) ELSE n)

\* the values that go with the labels of a grouped sum
SumsOf(cats, values, labels) ==
    SubSeq([k \in 1..Len(labels) |-> GroupSum(cats, values, labels[k])], 1, Len(labels))

\* a test for a bottom question that knows the word 'bottom' only
IsBottomOnly(question) ==
    Contains(<<"b","o","t","t","o","m">>, Lower(question))

\* is_bottom = any(word in question.lower() for word in ['bottom', 'worst', 'lowest'])
IsBottom(question) ==
    AnyContained(<< <<"b","o","t","t","o","m">>, <<"w","o","r","s","t">>, <<"l","o","w","e","s","t">> >>, Lower(question))

\* the ranking of _execute_smart_analytics: grouped.head(5) of the sums sorted
\* descending, or ascending for a bottom question
RankingOf(type, question, cat_col, num_col) ==
    WithEntries(
        [ Analytics(FALSE, type,
                    {<< "ranking" >>, << "category_column" >>, << "value_column" >>,
                     << "direction" >>},
                    IF Cardinality(Distinct(cat_col.values)) < RankingSize
                    THEN Cardinality(Distinct(cat_col.values)) ELSE RankingSize,
                    None)
          EXCEPT !.bottom = IsBottom(question) ],
        HeadOf(SortValues(cat_col.values, num_col.values, IsBottom(question)), RankingSize),
        SumsOf(cat_col.values, num_col.values,
               HeadOf(SortValues(cat_col.values, num_col.values, IsBottom(question)),
                     RankingSize)),
        cat_col, num_col)

\* daily[date_col]: the distinct dates of the rows that keep a date, in
\* chronological order
Days(date_col) ==
    IF date_col.dates
    THEN SubSeq([k \in 1..Cardinality(Distinct(date_col.values)) |->
                    CHOOSE d \in Distinct(date_col.values) :
                        Cardinality({e \in Distinct(date_col.values) : e <= d}) = k],
                1, Cardinality(Distinct(date_col.values)))
    ELSE << >>

\* the trend of _execute_smart_analytics from daily = the sums by date
TrendOf(type, date_col, value_col, daily) ==
    WithEntries(
        IF Len(daily) > 1
        THEN Analytics(FALSE, type,
                       {<< "trend" >>, << "trend_direction" >>, << "trend_change_pct" >>},
                       Len(daily), TrendDirection(daily))
        ELSE Analytics(FALSE, type, {<< "trend" >>}, Len(daily), None),
        Days(date_col), daily, date_col, value_col)

\* the comparison of _execute_smart_analytics: one segment for each group, in
\* the order of groupby, with its sum
ComparisonOf(type, cat_col, num_col) ==
    WithEntries(
        Analytics(FALSE, type, {<< "comparison" >>},
                  Cardinality(Distinct(cat_col.values)), None),
        GroupKeys(cat_col.values),
        SumsOf(cat_col.values, num_col.values, GroupKeys(cat_col.values)),
        cat_col, num_col)

\* _execute_smart_analytics(intent, question) on self.current_data = data
ExecuteSmartAnalytics(intent, question, data) ==
    LET cols == Columns(data)
        type == intent.question_type
        num_cols  == {i \in 1..Len(cols) : cols[i].dtype = "number"}
        cat_cols  == {i \in 1..Len(cols) : cols[i].dtype = "object"}
        date_cols == {i \in 1..Len(cols) : IsDateColumn(cols[i])}
    IN  CASE type = "aggregation" ->
               LET numeric_targets ==
                       {k \in 1..Len(intent.target_columns) :
                           /\ ColumnIndex(cols, intent.target_columns[k]) # 0
                           /\ cols[ColumnIndex(cols, intent.target_columns[k])].dtype = "number"}
               IN  IF numeric_targets = {}
                   THEN Analytics(FALSE, type, {<< "total_records" >>}, 1, None)
                   ELSE Analytics(FALSE, type,
                                  {<< intent.target_columns[k], stat >> :
                                      k \in numeric_targets,
                                      stat \in {"total", "average", "count"}},
                                  Cardinality(numeric_targets), None)
          [] type = "ranking" ->
               LET cat_col == ResolveColumn(cols, intent.target_columns, "object")
                   num_col == ResolveColumn(cols, intent.target_columns, "number")
               IN  IF cat_col # 0 /\ num_col # 0
                   THEN RankingOf(type, question, cols[cat_col], cols[num_col])
                   ELSE Analytics(FALSE, type, {}, 0, None)
          [] type = "trend_analysis" ->
               IF date_cols # {} /\ num_cols # {}
               THEN LET date_col  == SetMin(date_cols)
                        value_col == SetMin(num_cols)
                    IN  IF date_col = value_col
                        \* the column was converted to datetime: summing it, and
                        \* reset_index() on the grouped column, raise
                        THEN Analytics(TRUE, type, {}, 0, None)
                        ELSE LET daily == IF cols[date_col].dates
                                          THEN DailySums(cols[date_col].values,
                                                         cols[value_col].values)
                                          \* errors='coerce': every cell becomes
                                          \* NaT and dropna leaves no row
                                          ELSE << >>
                             IN  TrendOf(type, cols[date_col], cols[value_col], daily)
               ELSE Analytics(FALSE, type, {}, 0, None)
          [] type = "comparison" ->
               IF cat_cols # {} /\ num_cols # {}
               THEN ComparisonOf(type, cols[SetMin(cat_cols)], cols[SetMin(num_cols)])
               ELSE Analytics(FALSE, type, {}, 0, None)
          [] type = "statistics" ->
               Analytics(FALSE, type, {<< cols[i].label.text >> : i \in num_cols},
                         Cardinality(num_cols), None)
          [] OTHER -> Analytics(FALSE, type, {}, 0, None)

\* a chart mapper that goes by the visualization type alone and draws a chart
\* of an empty result
AutoGenerateChartsByType(intent, analytics) ==
    LET viz_type == intent.visualization_type
    IN  IF viz_type = "bar_chart" THEN << "bar_chart" >>
        ELSE IF viz_type = "line_chart" THEN << "line_chart" >>
        ELSE IF viz_type = "grouped_bar" THEN << "comparison_chart" >>
        ELSE IF viz_type = "distribution" /\ analytics.keys # {} THEN << "distribution" >>
        ELSE IF viz_type = "metric_card" THEN << "metrics" >>
        ELSE << >>

\* _auto_generate_charts: the types of the charts made ('metrics' carries no figure)
AutoGenerateCharts(intent, analytics) ==
    LET viz_type == intent.visualization_type
    IN  IF viz_type = "bar_chart" /\ << "ranking" >> \in analytics.keys
        THEN IF analytics.entries > 0 THEN << "bar_chart" >> ELSE << >>
        ELSE IF viz_type = "line_chart" /\ << "trend" >> \in analytics.keys
        THEN IF analytics.entries > 0 THEN << "line_chart" >> ELSE << >>
        ELSE IF viz_type = "grouped_bar" /\ << "comparison" >> \in analytics.keys
        THEN IF analytics.entries > 0 THEN << "comparison_chart" >> ELSE << >>
        ELSE IF viz_type = "distribution" /\ analytics.keys # {}
        THEN << "distribution" >>
        ELSE IF viz_type = "metric_card"
        THEN << "metrics" >>
        ELSE << >>

\* the chart_data SmartAnalyticsAgent.ask derives from the first visualization:
\* {} for None, else a one-element set
ChartData(visualizations, analytics) ==
    IF visualizations = << >> THEN {}
    ELSE IF visualizations[1] = "bar_chart"
    THEN {[type |-> "bar", title |-> "Top Performers Analysis",
           x |-> analytics.labels, y |-> analytics.values]}
    ELSE IF visualizations[1] = "line_chart"
    THEN {[type |-> "line", title |-> "Trend Analysis",
           x |-> analytics.labels, y |-> analytics.values]}
    ELSE IF visualizations[1] = "comparison_chart"
    THEN {[type |-> "bar", title |-> "Segment Comparison",
           x |-> analytics.labels, y |-> analytics.values]}
    ELSE {}

\* the text of an answer: which message or template it is and what it quotes
Answer(text, about) ==
    [text |-> text, about |-> about]

\* _generate_template_response: the template chosen
GenerateTemplateResponse(analytics) ==
    IF analytics.type = "aggregation" THEN Answer("template:aggregation", << >>)
    ELSE IF analytics.type = "ranking" /\ << "ranking" >> \in analytics.keys
            /\ analytics.entries > 0
    THEN Answer("template:ranking", << >>)
    ELSE IF analytics.type = "trend_analysis" /\ << "trend" >> \in analytics.keys
    THEN Answer("template:trend", << >>)
    ELSE IF analytics.type = "comparison" /\ << "comparison" >> \in analytics.keys
    THEN Answer("template:comparison", << >>)
    ELSE Answer("Analysis Complete", << >>)

\* _generate_strategic_recommendations
GenerateStrategicRecommendations(analytics) ==
    IF analytics.type = "ranking"
    THEN IF << "ranking" >> \in analytics.keys /\ analytics.entries > 0
         THEN << "prioritize top performer", "investigate underperformance",
                 "reallocate budget" >>
         ELSE << >>
    ELSE IF analytics.type = "trend_analysis"
    THEN IF analytics.direction = "decreasing"
         THEN << "address decline", "root cause analysis" >>
         ELSE IF analytics.direction = "increasing"
         THEN << "capitalize on growth", "scale strategies" >>
         ELSE << "monitor closely" >>
    ELSE IF analytics.type = "aggregation"
    THEN << "regular monitoring", "automated alerts" >>
    ELSE << >>

\* round(x, 2) for x in units of 1/10000: to the nearest 100, ties to even
Round2(x) ==
    LET q == x \div 100
        r == x % 100
    IN  IF r < 50 THEN 100 * q
        ELSE IF r > 50 THEN 100 * (q + 1)
        ELSE IF q % 2 = 0 THEN 100 * q ELSE 100 * (q + 1)

\* the cap of _calculate_confidence: min(0.99, ...)
ConfidenceCap ==
    9900

\* row_count >= 30 earns 0.1, row_count >= 10 earns 0.05
ManyRows ==
    30

SomeRows ==
    10

\* _calculate_confidence without min(0.99, ...): the sum of the base and the
\* bonuses, rounded
CalculateConfidenceUncapped(intent, analytics, data) ==
    Round2(intent.confidence
           + (IF data = None THEN 0
              ELSE IF RowCount(data) >= ManyRows THEN 1000
              ELSE IF RowCount(data) >= SomeRows THEN 500
              ELSE 0)
           + (IF analytics.keys # {} THEN 1000 ELSE 0)
           + (IF intent.target_columns # << >> THEN 500 ELSE 0))

\* _calculate_confidence(intent, analytics) on self.current_data = data
CalculateConfidence(intent, analytics, data) ==
    LET base_confidence == intent.confidence
        rows_factor    == IF data = None THEN 0
                          ELSE IF RowCount(data) >= ManyRows THEN 1000
                          ELSE IF RowCount(data) >= SomeRows THEN 500
                          ELSE 0
        results_factor == IF analytics.keys # {} THEN 1000 ELSE 0
        columns_factor == IF intent.target_columns # << >> THEN 500 ELSE 0
        total == base_confidence + rows_factor + results_factor + columns_factor
    IN  Round2(IF total < ConfidenceCap THEN total ELSE ConfidenceCap)

\* _generate_sql_equivalent: the statement built and the columns it names
GenerateSqlEquivalent(question_type, target_cols) ==
    IF question_type = "aggregation"
    THEN IF target_cols # << >> THEN [stmt |-> "SELECT SUM", columns |-> target_cols]
         ELSE [stmt |-> "SELECT COUNT(*)", columns |-> << >>]
    ELSE IF question_type = "ranking"
    THEN IF Len(target_cols) >= 2
         THEN [stmt |-> "GROUP BY ORDER BY LIMIT 5", columns |-> SubSeq(target_cols, 1, 2)]
         ELSE [stmt |-> "ORDER BY LIMIT 5", columns |-> target_cols]
    ELSE IF question_type = "trend_analysis"
    THEN [stmt |-> "GROUP BY date", columns |-> << >>]
    ELSE [stmt |-> "SELECT *", columns |-> << >>]

\* the confidence of the envelope SmartAnalyticsAgent.ask returns without data
NoDataConfidence ==
    0

\* the confidence of the envelope SmartAnalyticsAgent.ask returns when its gate
\* rejects: 0.3
SmartGateConfidence ==
    3000

\* the guidance message of a gate result: which of the four messages it is and
\* the keyword or the question it quotes
GuidanceMessage(vague_check, question) ==
    Answer(vague_check.rule,
           IF vague_check.rule = "irrelevant" THEN vague_check.keyword
           ELSE IF vague_check.rule = "short" THEN question
           ELSE << >>)

\* the outcome of a call: it raised, or it returned `envelope`; `appended` is
\* what it appended to self.conversation_context
Outcome(raised, envelope, appended) ==
    [raised |-> raised, envelope |-> envelope, appended |-> appended]

\* the envelope SmartAnalyticsAgent.ask returns after the pipeline ran, and
\* what it appended to self.conversation_context
SmartEnvelope(question, data, intent, analytics_result, visualizations) ==
    Outcome(FALSE,
            {[ answer |-> GenerateTemplateResponse(analytics_result),
               data |-> {analytics_result},
               visualizations |-> visualizations,
               chart_data |-> ChartData(visualizations, analytics_result),
               confidence |-> CalculateConfidence(intent, analytics_result, data),
               recommendations |-> GenerateStrategicRecommendations(analytics_result),
               sql_equivalent |-> GenerateSqlEquivalent(intent.question_type,
                                                        intent.target_columns),
               execution_time |-> "elapsed",
               intent |-> [question_type |-> intent.question_type,
                           confidence |-> intent.confidence,
                           target_columns |-> intent.target_columns,
                           visualization_type |-> intent.visualization_type] ]},
            << [question |-> question, intent |-> intent.question_type] >>)

\* ask from `visualizations = self._auto_generate_charts(...)` on
SmartAnalysed(question, data, intent, analytics_result) ==
    IF analytics_result.raised THEN Outcome(TRUE, {}, << >>)
    ELSE SmartEnvelope(question, data, intent, analytics_result,
                       AutoGenerateCharts(intent, analytics_result))

\* ask from `analytics_result = self._execute_smart_analytics(...)` on
SmartIntended(question, data, intent) ==
    IF intent.raised THEN Outcome(TRUE, {}, << >>)
    ELSE SmartAnalysed(question, data, intent,
                       ExecuteSmartAnalytics(intent, question, data))

\* an ask that records the question it rejects in the conversation context
SmartGatedRecording(question, data, vague_check) ==
    IF vague_check.raised THEN Outcome(TRUE, {}, << >>)
    ELSE IF vague_check.is_vague
    THEN Outcome(FALSE,
                 {[ answer |-> GuidanceMessage(vague_check, question),
                    data |-> {}, visualizations |-> << >>, chart_data |-> {},
                    confidence |-> SmartGateConfidence,
                    recommendations |-> vague_check.suggested_questions,
                    sql_equivalent |-> [stmt |-> "", columns |-> << >>],
                    execution_time |-> "elapsed",
                    is_vague |-> TRUE ]},
                 << [question |-> question, intent |-> "unknown"] >>)
    ELSE SmartIntended(question, data, AnalyzeIntent(question, data))

\* ask from `if vague_check['is_vague']:` on
SmartGated(question, data, vague_check) ==
    IF vague_check.raised THEN Outcome(TRUE, {}, << >>)
    ELSE IF vague_check.is_vague
    THEN Outcome(FALSE,
                 {[ answer |-> GuidanceMessage(vague_check, question),
                    data |-> {}, visualizations |-> << >>, chart_data |-> {},
                    confidence |-> SmartGateConfidence,
                    recommendations |-> vague_check.suggested_questions,
                    sql_equivalent |-> [stmt |-> "", columns |-> << >>],
                    execution_time |-> "elapsed",
                    is_vague |-> TRUE ]},
                 << >>)
    ELSE SmartIntended(question, data, AnalyzeIntent(question, data))

\* SmartAnalyticsAgent.ask(question) with self.current_data = data and
\* self.data_summary = summary.  None is {} and a dict is a one-element set.
SmartAsk(question, data, summary) ==
    IF data = None
    THEN Outcome(FALSE,
                 {[ answer |-> Answer("Please upload data first.", << >>),
                    data |-> {}, visualizations |-> << >>, chart_data |-> {},
                    confidence |-> NoDataConfidence, recommendations |-> << >> ]},
                 << >>)
    ELSE SmartGated(question, data, CheckIfVagueOrIrrelevant(question, data, summary))

(***************************************************************************)
(* Model tiers of OpenAIAnalyticsAgent: prompt building, the two backend   *)
(* calls and the chart derived from keywords                               *)
(***************************************************************************)

\* a value and the type json.dumps sees
Typed(type, value) ==
    [type |-> type, value |-> value]

\* _build_analytics_context: column_info of every column.  Series.sum() returns a
\* numpy.int64, nunique() a Python int.
BuildAnalyticsContext(question, data) ==
    [ column_info |->
         [i \in 1..Len(Columns(data)) |->
             [ dtype        |-> Typed("str", Columns(data)[i].dtype),
               null_count   |-> Typed("numpy.int64", 0),
               unique_count |-> Typed("int", Cardinality(Distinct(Columns(data)[i].values))) ]],
      suggested_analyses |->
         (IF AnyContained(<< <<"t","o","t","a","l">>, <<"s","u","m">> >>, Lower(question))
          THEN << "aggregation" >> ELSE << >>)
         \o (IF AnyContained(<< <<"a","v","e","r","a","g","e">>, <<"m","e","a","n">> >>, Lower(question))
             THEN << "statistical_summary" >> ELSE << >>)
         \o (IF AnyContained(<< <<"t","o","p">>, <<"b","e","s","t">> >>, Lower(question))
             THEN << "ranking" >> ELSE << >>)
         \o (IF AnyContained(<< <<"t","r","e","n","d">>, <<"t","i","m","e">> >>, Lower(question))
             THEN << "trend_analysis" >> ELSE << >>)
         \o (IF Contains(<<"c","o","m","p","a","r","e">>, Lower(question))
             THEN << "comparison" >> ELSE << >>) ]

\* the types json.dumps serializes
JsonTypes ==
    {"str", "int", "float", "bool", "NoneType", "list", "dict"}

\* _create_openai_prompt raises: ', '.join(df.columns.tolist()) (TypeError on a
\* label that is not a string), or json.dumps(analytics_context) (TypeError on
\* a value whose type it does not serialize)
CreateOpenaiPromptRaises(question, data) ==
    LET info == BuildAnalyticsContext(question, data).column_info
    IN  \/ \E i \in 1..Len(Columns(data)) : ~Columns(data)[i].label.str
        \/ \E i \in 1..Len(info) :
              \E f \in DOMAIN info[i] : info[i][f].type \notin JsonTypes

\* what a backend does when it is called
Replies ==
    {"ok", "empty", "exception", "timeout"}

\* the text a backend answers with when it answers
ReplyText(reply) ==
    IF reply = "ok" THEN <<" ","C","o","n","f","i","d","e","n","c","e",":"," ","H","i","g","h"," ">> ELSE <<>>

\* _call_openai(prompt): (answer, success)
CallOpenai(reply) ==
    IF reply \in {"exception", "timeout"} THEN [answer |-> <<>>, success |-> FALSE]
    ELSE [answer |-> Strip(ReplyText(reply)), success |-> TRUE]

\* _call_ollama(base_url, model, prompt): (answer, bool(answer))
CallOllama(reply) ==
    IF reply \in {"exception", "timeout"} THEN [answer |-> <<>>, success |-> FALSE]
    ELSE [answer |-> Strip(ReplyText(reply)), success |-> Strip(ReplyText(reply)) # <<>>]

\* the most rows or groups a chart of _generate_chart_data shows: head(10), nlargest(10, col)
ChartRows ==
    10

AtMost(n, cap) ==
    IF n < cap THEN n ELSE cap

\* next((i for c in cols if any(word in c.lower() for word in words)), None):
\* the position of the first such column, 0 for None
FirstNamed(cols, words) ==
    LET hits == {i \in 1..Len(cols) : AnyContained(words, Lower(cols[i].label.text))}
    IN  IF hits = {} THEN 0 ELSE SetMin(hits)

\* next(...) over cols raises before it reaches position `found` (0: it reaches
\* the end): c.lower() on a label that is not a string
NextRaises(cols, found) ==
    \E i \in 1..Len(cols) : ~cols[i].label.str /\ (found = 0 \/ i < found)

\* the rows of df.nlargest(n, col): the n largest values of the column, the
\* earlier row first among equal values
NLargest(values, n) ==
    HeadOf(SubSeq([k \in 1..Len(values) |->
                      CHOOSE i \in 1..Len(values) :
                          Cardinality({j \in 1..Len(values) :
                                          \/ values[j] > values[i]
                                          \/ values[j] = values[i] /\ j < i}) = k - 1],
                  1, Len(values)),
           n)

\* df[col].tolist() of the rows listed
Cells(values, rows) ==
    SubSeq([k \in 1..Len(rows) |-> values[rows[k]]], 1, Len(rows))

\* the bar chart of the sums by product: groupby(prod_col)[qty_col].sum()
\* .sort_values(ascending=False).head(10)
BarBySum(prod_col, qty_col) ==
    {[ type |-> "bar", title |-> qty_col.label.text,
       x |-> HeadOf(SortValues(prod_col.values, qty_col.values, FALSE), ChartRows),
       y |-> SumsOf(prod_col.values, qty_col.values,
                    HeadOf(SortValues(prod_col.values, qty_col.values, FALSE), ChartRows)) ]}

\* the bar chart of the rows with the largest values of the first numeric
\* column: x from the first object column, or the row index when there is none
BarByRow(cat_cols, col) ==
    {[ type |-> "bar", title |-> col.label.text,
       x |-> IF cat_cols # << >>
             THEN Cells(cat_cols[1].values, NLargest(col.values, ChartRows))
             ELSE NLargest(col.values, ChartRows),
       y |-> Cells(col.values, NLargest(col.values, ChartRows)) ]}

\* _generate_chart_data(chart_type, question, df): {} for None.  An exception
\* inside (c.lower() on a label that is not a string, pd.to_datetime on text
\* that is no date) ends in None.
GenerateChartData(chart_type, question, data) ==
    LET cols == Columns(data)
        question_lower == Lower(question)
        cat_cols == SelectDtypes(cols, "object")
        num_cols == SelectDtypes(cols, "number")
    IN  IF chart_type = "bar"
        THEN LET by_product == AnyContained(<< <<"q","u","a","n","t","i","t","y">>, <<"p","r","o","d","u","c","t">> >>, question_lower)
                 qty_col == FirstNamed(num_cols, << <<"q","u","a","n","t","i","t","y">>, <<"q","t","y">> >>)
                 prod_named == FirstNamed(cat_cols, << <<"p","r","o","d","u","c","t">>, <<"i","t","e","m">> >>)
                 prod_col == IF prod_named # 0 THEN prod_named
                             ELSE IF cat_cols # << >> THEN 1 ELSE 0
             IN  IF by_product /\ (NextRaises(num_cols, qty_col) \/ NextRaises(cat_cols, prod_named))
                 THEN {}
                 ELSE IF by_product /\ qty_col # 0 /\ prod_col # 0
                 THEN BarBySum(cat_cols[prod_col], num_cols[qty_col])
                 ELSE IF num_cols # << >>
                 THEN BarByRow(cat_cols, num_cols[1])
                 ELSE {}
        ELSE IF chart_type = "line"
        THEN IF cat_cols # << >> /\ num_cols # << >> /\ cat_cols[1].dates
             THEN {[type |-> "line", title |-> num_cols[1].label.text,
                    data |-> RowCount(data)]}
             ELSE {}
        ELSE IF chart_type = "pie"
        THEN IF cat_cols # << >>
             THEN {[type |-> "pie", title |-> cat_cols[1].label.text,
                    data |-> AtMost(Cardinality(Distinct(cat_cols[1].values)), 8)]}
             ELSE {}
        ELSE {}

\* chart_keywords of _determine_chart_type, in dictionary order
chart_keywords ==
    << [type |-> "bar",
        keywords |-> << <<"t","o","p">>, <<"b","e","s","t">>, <<"w","o","r","s","t">>, <<"h","i","g","h","e","s","t">>, <<"l","o","w","e","s","t">>, <<"c","o","m","p","a","r","e">>,
                        <<"r","a","n","k","i","n","g">>, <<"c","h","a","r","t">>, <<"s","h","o","w"," ","m","e"," ","a"," ","c","h","a","r","t">> >>],
       [type |-> "line",
        keywords |-> << <<"t","r","e","n","d">>, <<"o","v","e","r"," ","t","i","m","e">>, <<"t","i","m","e"," ","s","e","r","i","e","s">>, <<"e","v","o","l","u","t","i","o","n">>, <<"c","h","a","n","g","e">> >>],
       [type |-> "pie",
        keywords |-> << <<"p","e","r","c","e","n","t","a","g","e">>, <<"p","r","o","p","o","r","t","i","o","n">>, <<"s","h","a","r","e">>, <<"b","r","e","a","k","d","o","w","n">>,
                        <<"d","i","s","t","r","i","b","u","t","i","o","n">> >>],
       [type |-> "scatter",
        keywords |-> << <<"c","o","r","r","e","l","a","t","i","o","n">>, <<"r","e","l","a","t","i","o","n","s","h","i","p">>, <<"s","c","a","t","t","e","r">>, <<"p","l","o","t">> >>],
       [type |-> "histogram",
        keywords |-> << <<"d","i","s","t","r","i","b","u","t","i","o","n">>, <<"f","r","e","q","u","e","n","c","y">>, <<"h","i","s","t","o","g","r","a","m">> >>] >>

\* _determine_chart_type(question, answer, df): the chart of the first chart
\* type with a keyword in the question or in the answer; {} for None
DetermineChartType(question, answer, data) ==
    LET hits == {k \in 1..Len(chart_keywords) :
                    \/ AnyContained(chart_keywords[k].keywords, Lower(question))
                    \/ AnyContained(chart_keywords[k].keywords, Lower(answer))}
    IN  IF hits = {} THEN {}
        ELSE GenerateChartData(chart_keywords[SetMin(hits)].type, question, data)

(***************************************************************************)
(* The agent as a state machine.  One agent object is constructed, as an   *)
(* OpenAIAnalyticsAgent (the orchestrator) or as a plain                   *)
(* SmartAnalyticsAgent (the dashboards' entry point); data frames are      *)
(* loaded and questions asked.  An ask of the orchestrator goes through    *)
(* the positions gate_check, remote_model, local_model, deterministic and  *)
(* ends at done (it returned an envelope) or at raised (an exception left  *)
(* ask).                                                                   *)
(***************************************************************************)

VARIABLES
    agent,                  \* the class of the agent object
    openai_available,       \* self.openai_available (and self.openai_client)
    ollama_available,       \* self.ollama_available
    current_data,           \* self.current_data: None or the data frame loaded
    data_summary,           \* self.data_summary: {} for None, else {summary}
    conversation_context,   \* self.conversation_context
    pc,                     \* where the running ask is
    question,               \* the question of the running ask (0: none)
    vague_response,         \* the gate's result in the running ask: {} or {result}
    replies,                \* what each backend does when called in this ask
    attempts,               \* the tiers attempted in this ask, in order
    result,                 \* {} or {the envelope ask returned}
    openai_api_key,         \* openai.api_key, an attribute of the openai module
    first_answer,           \* what the caller keeps of the first answer of the
                            \* rule-based pipeline on the data frame loaded: {} or
                            \* {question, data, envelope}
    matcher                 \* the locals of a call of match_intent taken on its
                            \* own: the query, the corpus entries passed (n),
                            \* best_intent, best_score, best_match (the entry)

vars ==
    << agent, openai_available, ollama_available, current_data, data_summary,
       conversation_context, pc, question, vague_response, replies, attempts, result,
       openai_api_key, first_answer, matcher >>

\* the questions one agent answers from its pipeline before the model stops asking
MaxContext ==
    2

Agents ==
    {"OpenAIAnalyticsAgent", "SmartAnalyticsAgent"}

NoReplies ==
    [remote |-> "none", local |-> "none"]

\* the confidences OpenAIAnalyticsAgent.ask puts in its envelopes: 0.0 without
\* data, 0.8 when the gate rejects, 0.9 for the remote and 0.85 for the local
\* backend's answer, 0.3 when the rule-based pipeline raised
LoadFirstConfidence ==
    0

GateConfidence ==
    8000

OpenaiConfidence ==
    9000

OllamaConfidence ==
    8500

FallbackErrorConfidence ==
    3000

\* the API keys of this agent's session and of another session
OwnKey ==
    "sk-session-1"

OtherKey ==
    "sk-session-2"

\* self.api_key: openai_available = OPENAI_AVAILABLE and bool(self.api_key); the
\* openai package is taken to be installed
api_key ==
    IF openai_available THEN OwnKey ELSE ""

\* no call of match_intent is followed step by step
NoMatcher ==
    [ query |-> 0, n |-> 0, best_intent |-> "unknown", best_score |-> 0, best_match |-> 0,
      returned |-> FALSE ]

\* __init__: the orchestrator has a remote backend when the openai package and
\* an API key are there, a local one when OLLAMA_BASE_URL and OLLAMA_MODEL are
\* not empty; a SmartAnalyticsAgent has neither attribute
Init ==
    /\ agent \in Agents
    /\ openai_available \in (IF agent = "OpenAIAnalyticsAgent" THEN BOOLEAN ELSE {FALSE})
    /\ ollama_available \in (IF agent = "OpenAIAnalyticsAgent" THEN BOOLEAN ELSE {FALSE})
    /\ current_data = None
    /\ data_summary = {}
    /\ conversation_context = << >>
    /\ pc = "idle"
    /\ question = 0
    /\ vague_response = {}
    /\ replies = NoReplies
    /\ attempts = << >>
    /\ result = {}
    /\ openai_api_key = IF openai_available THEN OwnKey ELSE None
    /\ first_answer = {}
    /\ matcher = NoMatcher

\* load_data(df): self.current_data is assigned first; when building the
\* summary raises, self.data_summary keeps what it was
LoadData(d) ==
    /\ pc = "idle"
    /\ current_data' = d
    /\ data_summary' = IF LoadRaises(d) THEN data_summary ELSE {Summary(d)}
    /\ first_answer' = IF d = current_data THEN first_answer ELSE {}
    /\ UNCHANGED << matcher, agent, openai_available, ollama_available, openai_api_key,
                    conversation_context, pc, question, vague_response, replies, attempts,
                    result >>

\* ask(question) is called.  OpenAIAnalyticsAgent.ask returns at once when no
\* data is loaded; SmartAnalyticsAgent.ask is one step of its own (SmartAgentAsk).
Ask(q) ==
    /\ pc = "idle"
    /\ Len(conversation_context) < MaxContext
    /\ question' = q
    /\ vague_response' = {}
    /\ replies' = NoReplies
    /\ attempts' = << >>
    /\ IF agent = "SmartAnalyticsAgent"
       THEN pc' = "smart_ask" /\ result' = {}
       ELSE IF current_data = None
       THEN /\ pc' = "done"
            /\ result' = {[ answer |-> Answer("Please load data first before asking questions.",
                                               << >>),
                            confidence |-> LoadFirstConfidence,
                            chart_data |-> {} ]}
       ELSE pc' = "gate_check" /\ result' = {}
    /\ UNCHANGED << matcher, agent, openai_available, ollama_available, openai_api_key,
                    current_data, data_summary, conversation_context, first_answer >>

\* what the caller keeps when the rule-based pipeline has answered for the
\* first time since the data frame was loaded (the pipeline ran to its end: it
\* appended to the context); load_data of another frame drops it
FirstAnswer(out) ==
    IF first_answer = {} /\ out.appended # << >>
    THEN {[question |-> question, data |-> current_data, envelope |-> out.envelope]}
    ELSE first_answer

\* SmartAnalyticsAgent.ask, called on a plain SmartAnalyticsAgent: nothing
\* catches what it raises
SmartAgentAsk ==
    /\ pc = "smart_ask"
    /\ \E out \in {SmartAsk(Questions[question], current_data, data_summary)} :
           /\ pc' = IF out.raised THEN "raised" ELSE "done"
           /\ result' = out.envelope
           /\ conversation_context' = conversation_context \o out.appended
           /\ first_answer' = FirstAnswer(out)
    /\ \E vague \in {CheckIfVagueOrIrrelevant(Questions[question], current_data,
                                               data_summary)} :
           IF current_data = None
           THEN vague_response' = {} /\ attempts' = << >>
           ELSE /\ vague_response' = {vague}
                /\ attempts' = IF ~vague.raised /\ ~vague.is_vague
                               THEN << "deterministic" >> ELSE << >>
    /\ UNCHANGED << matcher, agent, openai_available, ollama_available, openai_api_key,
                    current_data, data_summary, question, replies >>

\* GATE_CHECK of OpenAIAnalyticsAgent.ask: the call of
\* _check_if_vague_or_irrelevant is outside every try
GateCheck ==
    /\ pc = "gate_check"
    /\ \E vague \in {CheckIfVagueOrIrrelevant(Questions[question], current_data,
                                               data_summary)} :
           /\ vague_response' = {vague}
           /\ IF vague.raised
              THEN pc' = "raised" /\ result' = {}
              ELSE IF vague.is_vague
              THEN /\ pc' = "done"
                   /\ result' = {[ answer |-> GuidanceMessage(vague, Questions[question]),
                                   confidence |-> GateConfidence,
                                   chart_data |-> {} ]}
              ELSE pc' = "remote_model" /\ result' = {}
    /\ UNCHANGED << matcher, agent, openai_available, ollama_available, openai_api_key,
                    current_data, data_summary, conversation_context, question, replies,
                    attempts, first_answer >>

\* `if self.openai_available and self.openai_client:`
TryOpenai ==
    openai_available

\* a local tier that is tried whether or not an endpoint is configured
TryOllamaAlways ==
    TRUE

\* `if self.ollama_available:`
TryOllama ==
    ollama_available

\* the envelope of a model tier's answer
ModelEnvelope(answer, confidence, source) ==
    [ answer |-> Answer("reply", answer),
      confidence |-> confidence,
      chart_data |-> DetermineChartType(Questions[question], answer, current_data),
      source |-> source ]

\* REMOTE_MODEL: skipped when no remote backend is configured; else the prompt
\* is built and the backend called, inside one try
RemoteModel ==
    /\ pc = "remote_model"
    /\ IF ~TryOpenai
       THEN pc' = "local_model" /\ UNCHANGED << replies, attempts, result >>
       ELSE \E reply \in Replies :
              /\ replies' = [replies EXCEPT !.remote = reply]
              /\ attempts' = Append(attempts, "remote")
              /\ IF CreateOpenaiPromptRaises(Questions[question], current_data)
                 THEN pc' = "local_model" /\ result' = {}
                 ELSE LET called == CallOpenai(reply)
                      IN  IF called.success /\ called.answer # << >>
                          THEN /\ pc' = "done"
                               /\ result' = {ModelEnvelope(called.answer, OpenaiConfidence,
                                                           "openai")}
                          ELSE pc' = "local_model" /\ result' = {}
    /\ UNCHANGED << matcher, agent, openai_available, ollama_available, openai_api_key,
                    current_data, data_summary, conversation_context, question,
                    vague_response, first_answer >>

\* LOCAL_MODEL: the same with the Ollama server
LocalModel ==
    /\ pc = "local_model"
    /\ IF ~TryOllama
       THEN pc' = "deterministic" /\ UNCHANGED << replies, attempts, result >>
       ELSE \E reply \in Replies :
              /\ replies' = [replies EXCEPT !.local = reply]
              /\ attempts' = Append(attempts, "local")
              /\ IF CreateOpenaiPromptRaises(Questions[question], current_data)
                 THEN pc' = "deterministic" /\ result' = {}
                 ELSE LET called == CallOllama(reply)
                      IN  IF called.success /\ called.answer # << >>
                          THEN /\ pc' = "done"
                               /\ result' = {ModelEnvelope(called.answer, OllamaConfidence,
                                                           "ollama")}
                          ELSE pc' = "deterministic" /\ result' = {}
    /\ UNCHANGED << matcher, agent, openai_available, ollama_available, openai_api_key,
                    current_data, data_summary, conversation_context, question,
                    vague_response, first_answer >>

\* a rule-based fallback whose confidence is biased by the conversation context
FallbackBiased(out) ==
    IF out.raised
    THEN Outcome(FALSE,
                 {[ answer |-> Answer("I encountered an error while processing your question",
                                      << >>),
                    confidence |-> FallbackErrorConfidence,
                    chart_data |-> {},
                    source |-> "fallback_error" ]},
                 << >>)
    ELSE Outcome(FALSE,
                 {[e EXCEPT !.confidence = IF conversation_context = << >> THEN @ ELSE @ - 100]
                     @@ [source |-> "fallback"] : e \in out.envelope},
                 out.appended)

\* the rule-based fallback without its except clause: what super().ask raises
\* leaves ask
FallbackUncaught(out) ==
    IF out.raised THEN out
    ELSE Outcome(FALSE, {e @@ [source |-> "fallback"] : e \in out.envelope}, out.appended)

\* the rule-based fallback of OpenAIAnalyticsAgent.ask: super().ask(question)
\* inside try, its envelope tagged 'fallback'; what it raises becomes the
\* 'fallback_error' envelope
Fallback(out) ==
    IF out.raised
    THEN Outcome(FALSE,
                 {[ answer |-> Answer("I encountered an error while processing your question",
                                      << >>),
                    confidence |-> FallbackErrorConfidence,
                    chart_data |-> {},
                    source |-> "fallback_error" ]},
                 << >>)
    ELSE Outcome(FALSE, {e @@ [source |-> "fallback"] : e \in out.envelope}, out.appended)

\* DETERMINISTIC
Deterministic ==
    /\ pc = "deterministic"
    /\ \E out \in {Fallback(SmartAsk(Questions[question], current_data, data_summary))} :
           /\ pc' = IF out.raised THEN "raised" ELSE "done"
           /\ result' = out.envelope
           /\ conversation_context' = conversation_context \o out.appended
           /\ first_answer' = FirstAnswer(out)
    /\ attempts' = Append(attempts, "deterministic")
    /\ UNCHANGED << matcher, agent, openai_available, ollama_available, openai_api_key,
                    current_data, data_summary, question, vague_response, replies >>

\* the caller has the envelope (or the exception); the agent is ready again
Return ==
    /\ pc \in {"done", "raised"}
    /\ pc' = "idle"
    /\ question' = 0
    /\ vague_response' = {}
    /\ replies' = NoReplies
    /\ attempts' = << >>
    /\ result' = {}
    /\ UNCHANGED << matcher, agent, openai_available, ollama_available, openai_api_key,
                    current_data, data_summary, conversation_context, first_answer >>

Next ==
    \/ \E d \in DatasetIds : LoadData(d)
    \/ \E q \in QuestionIds : Ask(q)
    \/ SmartAgentAsk
    \/ GateCheck
    \/ RemoteModel
    \/ LocalModel
    \/ Deterministic
    \/ Return

Spec ==
    Init /\ [][Next]_vars

(***************************************************************************)
(* Two sessions in one process: this agent, an orchestrator with a remote  *)
(* backend, and the agents constructed for another session.                *)
(***************************************************************************)

SessionInit ==
    /\ Init
    /\ agent = "OpenAIAnalyticsAgent"
    /\ openai_available
    /\ ~ollama_available

\* OpenAIAnalyticsAgent(api_key=...) is constructed for another session, in the
\* same process (the API's query view constructs one agent for each request):
\* `openai.api_key = self.api_key` assigns the module's attribute
OtherSessionInit ==
    /\ openai_api_key # OtherKey
    /\ openai_api_key' = OtherKey
    /\ UNCHANGED << matcher, agent, openai_available, ollama_available, current_data, data_summary,
                    conversation_context, pc, question, vague_response, replies, attempts,
                    result, first_answer >>

SessionNext ==
    \/ OtherSessionInit
    \/ \E d \in DatasetIds : LoadData(d)
    \/ \E q \in QuestionIds : Ask(q)
    \/ GateCheck
    \/ RemoteModel
    \/ LocalModel
    \/ Deterministic
    \/ Return

SessionSpec ==
    SessionInit /\ [][SessionNext]_vars

(***************************************************************************)
(* The chart mapper on its own: _determine_chart_type(question, answer,    *)
(* df) applied to every data frame, every question the gate lets pass      *)
(* and answers of a backend with and without chart keywords, as the model  *)
(* tiers apply it to an answer they got.                                    *)
(***************************************************************************)

\* texts a backend answers with: no chart keyword, a keyword of the bar
\* chart, of the line chart and of the pie chart
AnswerTexts ==
    { Strip(ReplyText("ok")), <<"t","h","e"," ","b","e","s","t"," ","o","n","e">>, <<"a"," ","c","h","a","n","g","e">>, <<"t","h","e"," ","b","r","e","a","k","d","o","w","n">> }

ChartInit ==
    /\ agent = "OpenAIAnalyticsAgent"
    /\ openai_available = TRUE
    /\ ollama_available = FALSE
    /\ current_data \in DatasetIds
    /\ data_summary = IF LoadRaises(current_data) THEN {} ELSE {Summary(current_data)}
    /\ conversation_context = << >>
    /\ pc = "answered"
    /\ question \in QuestionIds
    /\ vague_response = {CheckIfVagueOrIrrelevant(Questions[question], current_data,
                                                  data_summary)}
    /\ \A v \in vague_response : ~v.raised /\ ~v.is_vague
    /\ replies = [remote |-> "ok", local |-> "none"]
    /\ attempts = << "remote" >>
    /\ result = {}
    /\ openai_api_key = OwnKey
    /\ first_answer = {}
    /\ matcher = NoMatcher

\* `chart_data = self._determine_chart_type(question, answer, self.current_data)`
\* and the envelope built around it
ChartOfAnswer(answer) ==
    /\ pc = "answered"
    /\ pc' = "done"
    /\ result' = {ModelEnvelope(answer, OpenaiConfidence, "openai")}
    /\ UNCHANGED << matcher, agent, openai_available, ollama_available, openai_api_key,
                    current_data, data_summary, conversation_context, question,
                    vague_response, replies, attempts, first_answer >>

ChartNext ==
    \E answer \in AnswerTexts : ChartOfAnswer(answer)

ChartSpec ==
    ChartInit /\ [][ChartNext]_vars

(***************************************************************************)
(* The Intent Classifier on its own: one call of match_intent(query) for   *)
(* every question of Questions, followed entry by entry through the        *)
(* corpus.                                                                 *)
(***************************************************************************)

MatchInit ==
    /\ agent = "SmartAnalyticsAgent"
    /\ openai_available = FALSE
    /\ ollama_available = FALSE
    /\ current_data = None
    /\ data_summary = {}
    /\ conversation_context = << >>
    /\ pc = "idle"
    /\ question = 0
    /\ vague_response = {}
    /\ replies = NoReplies
    /\ attempts = << >>
    /\ result = {}
    /\ openai_api_key = None
    /\ first_answer = {}
    /\ matcher \in {[NoMatcher EXCEPT !.query = q] : q \in QuestionIds}

\* `if score > best_score:`
Better(score, best_score) ==
    score > best_score

\* one pass of the loops over self.intent_patterns: the score of the next
\* entry, and the three assignments when it is better than the best so far
MatchEntry ==
    /\ ~matcher.returned
    /\ matcher.n < Len(intent_patterns)
    /\ \E score \in {Score(ExpandWithSynonyms(Strip(Lower(Questions[matcher.query]))),
                            matcher.n + 1)} :
           matcher' = IF Better(score, matcher.best_score)
                      THEN [matcher EXCEPT !.n = @ + 1,
                                           !.best_score = score,
                                           !.best_intent = intent_patterns[matcher.n + 1].intent,
                                           !.best_match = matcher.n + 1]
                      ELSE [matcher EXCEPT !.n = @ + 1]
    /\ UNCHANGED << agent, openai_available, ollama_available, openai_api_key,
                    current_data, data_summary, conversation_context, pc, question,
                    vague_response, replies, attempts, result, first_answer >>

\* `return best_intent, best_score, metadata` after the last entry
MatchReturn ==
    /\ ~matcher.returned
    /\ matcher.n = Len(intent_patterns)
    /\ matcher' = [matcher EXCEPT !.returned = TRUE]
    /\ UNCHANGED << agent, openai_available, ollama_available, openai_api_key,
                    current_data, data_summary, conversation_context, pc, question,
                    vague_response, replies, attempts, result, first_answer >>

MatchNext ==
    \/ MatchEntry
    \/ MatchReturn

MatchSpec ==
    MatchInit /\ [][MatchNext]_vars

(***************************************************************************)
(* Properties of the answer orchestration                                  *)
(***************************************************************************)

\* C1: Envelope totality.  For every question, every dataset state and every
\* outcome of the backend calls, OpenAIAnalyticsAgent.ask returns an envelope
\* and never raises: no ask of the orchestrator ends with an exception.
C1_EnvelopeTotality ==
    agent = "OpenAIAnalyticsAgent" => pc # "raised"

\* C2: Tier ordering.  Within one ask of the orchestrator, tiers are attempted
\* only after the gate passed and in the order remote, local, deterministic;
\* the remote tier only if it is configured; the local tier only if it is
\* configured and the remote tier is unconfigured or failed (an exception, a
\* timeout or an empty reply); the deterministic tier only if every model tier
\* is unconfigured or failed, so never after a model tier answered.
C2_TierOrdering ==
    agent = "OpenAIAnalyticsAgent" =>
        LET Rank(tier) == CASE tier = "remote" -> 1
                            [] tier = "local" -> 2
                            [] tier = "deterministic" -> 3
            Attempted(tier) == \E i \in 1..Len(attempts) : attempts[i] = tier
            PromptFailed == CreateOpenaiPromptRaises(Questions[question], current_data)
            RemoteFailed == PromptFailed \/ replies.remote \in {"empty", "exception", "timeout"}
            LocalFailed  == PromptFailed \/ replies.local \in {"empty", "exception", "timeout"}
        IN  /\ \A i, j \in 1..Len(attempts) : i < j => Rank(attempts[i]) < Rank(attempts[j])
            /\ attempts # << >> => \E v \in vague_response : ~v.raised /\ ~v.is_vague
            /\ Attempted("remote") => openai_available
            /\ Attempted("local") =>
                  ollama_available /\ (~openai_available \/ RemoteFailed)
            /\ Attempted("deterministic") =>
                  /\ ~openai_available \/ RemoteFailed
                  /\ ~ollama_available \/ LocalFailed
                  /\ \A r \in result :
                        "source" \in DOMAIN r => r.source \notin {"openai", "ollama"}

\* C2 happens: an ask went through the remote, the local and the deterministic
\* tier, in this order, and returned.
C2_AllTiersAttempted ==
    /\ pc = "done"
    /\ attempts = << "remote", "local", "deterministic" >>

\* C3: Model-tier success reaches DONE.  Whenever the remote backend is
\* configured and answers with a text that is not empty, for a question that
\* passed the gate, ask returns that text tagged as the remote tier's and no
\* lower tier is attempted; the same for the local tier when the remote tier is
\* unconfigured or failed.  This holds for every loaded dataset, the building
\* of the prompt included.
C3_ModelTierSuccess ==
    ( /\ agent = "OpenAIAnalyticsAgent"
      /\ pc = "done"
      /\ \E v \in vague_response : ~v.raised /\ ~v.is_vague ) =>
        /\ replies.remote = "ok" =>
              /\ attempts = << "remote" >>
              /\ \A r \in result :
                    /\ "source" \in DOMAIN r
                    /\ r.source = "openai"
                    /\ r.answer = Answer("reply", Strip(ReplyText("ok")))
        /\ (replies.remote # "ok" /\ replies.local = "ok") =>
              /\ attempts \in {<< "local" >>, << "remote", "local" >>}
              /\ \A r \in result :
                    /\ "source" \in DOMAIN r
                    /\ r.source = "ollama"
                    /\ r.answer = Answer("reply", Strip(ReplyText("ok")))

\* C4: Termination without retry.  Every ask of the orchestrator ends at DONE,
\* never anywhere else, and has attempted each of the remote, local and
\* deterministic tiers at most once.
C4_TerminationWithoutRetry ==
    agent = "OpenAIAnalyticsAgent" =>
        /\ pc # "raised"
        /\ \A tier \in {"remote", "local", "deterministic"} :
              Cardinality({i \in 1..Len(attempts) : attempts[i] = tier}) <= 1

\* C5: Gate short-circuit.  When the Relevance Gate rejects a question, ask
\* returns the gate's guidance message with one fixed confidence (the
\* orchestrator's 0.8), whatever the question, the dataset and the entry point
\* (OpenAIAnalyticsAgent.ask or SmartAnalyticsAgent.ask), and no tier is
\* attempted.
C5_GateShortCircuit ==
    \A v \in vague_response :
        (pc = "done" /\ v.is_vague) =>
            /\ attempts = << >>
            /\ \A r \in result :
                  /\ r.answer = GuidanceMessage(v, Questions[question])
                  /\ r.confidence = GateConfidence

\* C6: Gate soundness.  With a dataset loaded, the questions "hi", "hello" and
\* "thanks", in any letter case and with surrounding whitespace, yield an
\* envelope with source = "gate" and is_vague = true, whatever backends are
\* configured.
C6_GateSoundness ==
    ( /\ pc = "done"
      /\ current_data # None
      /\ Strip(Lower(Questions[question])) \in {<<"h","i">>, <<"h","e","l","l","o">>, <<"t","h","a","n","k","s">>} ) =>
        \A r \in result :
            /\ "source" \in DOMAIN r
            /\ r.source = "gate"
            /\ "is_vague" \in DOMAIN r
            /\ r.is_vague

\* C7: Identical output contract.  Every envelope the orchestrator's ask
\* returns carries the fields of the contract (answer, confidence, chart,
\* recommendations, source, elapsed time), whichever path produced it.
C7_IdenticalOutputContract ==
    agent = "OpenAIAnalyticsAgent" =>
        \A r \in result :
            {"answer", "confidence", "chart_data", "recommendations", "source",
             "execution_time"} \subseteq DOMAIN r

\* C8: Source tagging.  The envelope the orchestrator returns for a question
\* asked of a loaded dataset has a source field; it names the remote tier only
\* if the remote call answered, the local tier only if the local call
\* answered, the deterministic tier only if the rule-based pipeline ran, and
\* the gate only if the gate rejected.
C8_SourceTagging ==
    (agent = "OpenAIAnalyticsAgent" /\ pc = "done" /\ current_data # None) =>
        \A r \in result :
            /\ "source" \in DOMAIN r
            /\ r.source \in {"openai", "ollama", "fallback", "fallback_error", "gate"}
            /\ r.source = "openai" => attempts = << "remote" >> /\ replies.remote = "ok"
            /\ r.source = "ollama" =>
                  attempts[Len(attempts)] = "local" /\ replies.local = "ok"
            /\ r.source \in {"fallback", "fallback_error"} =>
                  attempts[Len(attempts)] = "deterministic"
            /\ r.source = "gate" => \E v \in vague_response : v.is_vague

\* C9: The deterministic tier cannot fail.  Whatever the rule-based pipeline
\* raises is caught in the orchestrator: an ask that reached the deterministic
\* tier returns an envelope, and when the pipeline raised it is the
\* low-confidence envelope whose answer reports the error.
C9_DeterministicCannotFail ==
    ( /\ agent = "OpenAIAnalyticsAgent"
      /\ attempts # << >>
      /\ attempts[Len(attempts)] = "deterministic" ) =>
        /\ pc = "done"
        /\ result # {}
        /\ SmartAsk(Questions[question], current_data, data_summary).raised =>
              \A r \in result :
                  /\ r.answer.text = "I encountered an error while processing your question"
                  /\ r.confidence = FallbackErrorConfidence
                  /\ r.confidence < GateConfidence
                  /\ r.chart_data = {}

\* C9 happens: the rule-based pipeline raised on a dataset whose labels are all
\* strings (the trend analysis of a column that is both the date and the
\* value column), and ask returned the error envelope.
C9_PipelineRaisedAndCaught ==
    /\ agent = "OpenAIAnalyticsAgent"
    /\ pc = "done"
    /\ current_data = "updates"
    /\ SmartAsk(Questions[question], current_data, data_summary).raised
    /\ \E r \in result : "source" \in DOMAIN r /\ r.source = "fallback_error"

\* C10: Confidence bounds.  For every question, dataset and answering path, of
\* either entry point, the confidence c of the envelope satisfies
\* 0 <= c <= 0.99 (in units of 1/10000: 0 <= c <= 9900).
C10_ConfidenceBounds ==
    \A r \in result : 0 <= r.confidence /\ r.confidence <= 99 * 100

\* C10 happens: the rule-based pipeline answered with base confidence and
\* bonuses above 0.99 together, and the envelope carries 0.99.
C10_ConfidenceCapped ==
    /\ pc = "done"
    /\ \E r \in result :
          /\ "intent" \in DOMAIN r
          /\ r.confidence = 99 * 100
          /\ matched_intents[question].confidence + 2500 > 99 * 100

(***************************************************************************)
(* Properties of the charts, the strategies, the gate's rules and the       *)
(* state of the agent                                                       *)
(***************************************************************************)

C13_ColumnPrecedence ==
    \A r \in result :
        "intent" \in DOMAIN r =>
            \A e \in r.data :
                LET Named(dtype) ==
                        {Columns(current_data)[i].label.text :
                            i \in {j \in 1..Len(Columns(current_data)) :
                                      /\ Columns(current_data)[j].dtype = dtype
                                      /\ ColumnNamed(Columns(current_data)[j],
                                                     Lower(Questions[question]))}}
                IN  /\ (e.value_column # << >> /\ Named("number") # {}) =>
                          e.value_column[1] \in Named("number")
                    /\ ( /\ e.type \in {"ranking", "comparison"}
                         /\ e.category_column # << >>
                         /\ Named("object") # {} ) =>
                          e.category_column[1] \in Named("object")
                    /\ (e.type = "aggregation" /\ Named("number") # {}) =>
                          \A key \in e.keys : key[1] \in Named("number")

\* C14: Ranking correctness.  The ranking strategy returns the sums of the
\* numeric column by category, in descending order of the sum, or in ascending
\* order when the question contains bottom, worst or lowest, cut to the first 5
\* groups: every group left out sorts after every group kept.
C14_RankingCorrectness ==
    \A r \in result :
        "intent" \in DOMAIN r =>
            \A e \in r.data :
                (e.type = "ranking" /\ e.category_column # << >>) =>
                    LET cols == Columns(current_data)
                        cats == cols[ColumnIndex(cols, e.category_column[1])].values
                        nums == cols[ColumnIndex(cols, e.value_column[1])].values
                        groups == {cats[i] : i \in 1..Len(cats)}
                        Total(g) == SumOver(nums, {i \in 1..Len(cats) : cats[i] = g})
                        ascending == AnyContained(<< <<"b","o","t","t","o","m">>, <<"w","o","r","s","t">>, <<"l","o","w","e","s","t">> >>,
                                                  Lower(Questions[question]))
                        InOrder(a, b) == IF ascending THEN a <= b ELSE a >= b
                        kept == {e.labels[k] : k \in 1..Len(e.labels)}
                    IN  /\ Len(e.labels) = Len(e.values)
                        /\ Len(e.labels) = (IF Cardinality(groups) < 5
                                            THEN Cardinality(groups) ELSE 5)
                        /\ kept \subseteq groups
                        /\ Cardinality(kept) = Len(e.labels)
                        /\ \A k \in 1..Len(e.labels) : e.values[k] = Total(e.labels[k])
                        /\ \A k \in 1..(Len(e.labels) - 1) :
                              InOrder(e.values[k], e.values[k + 1])
                        /\ \A g \in groups \ kept :
                              \A k \in 1..Len(e.values) : InOrder(e.values[k], Total(g))

\* C14 happens: a "worst" question ranked the six products of the orders frame
\* by their summed quantity, ascending, and kept the five smallest.
C14_WorstFiveRanked ==
    /\ pc = "done"
    /\ current_data = "orders"
    /\ Questions[question] = <<"w","o","r","s","t"," ","p","r","o","d","u","c","t">>
    /\ \E r \in result :
          /\ "intent" \in DOMAIN r
          /\ \E e \in r.data :
                /\ e.type = "ranking"
                /\ e.labels = << "P2", "P3", "P4", "P5", "P6" >>
                /\ e.values = << 8, 10, 12, 14, 16 >>

\* C15: Chart kind follows the result category in the rule-based pipeline.
\* Every non-empty ranking or comparison yields a bar chart whose x are the
\* group labels and y the aggregated values in result order, every non-empty
\* trend yields a line chart, and every aggregation yields a chart of kind
\* metrics (counted here also when it is only among the visualizations), for
\* every question classified into the category, with or without trigger words.
C15_ChartFollowsCategory ==
    \A r \in result :
        "intent" \in DOMAIN r =>
            \A e \in r.data :
                /\ (e.type \in {"ranking", "comparison"} /\ e.labels # << >>) =>
                      \E chart \in r.chart_data :
                          /\ chart.type = "bar"
                          /\ chart.x = e.labels
                          /\ chart.y = e.values
                /\ (e.type = "trend_analysis" /\ e.labels # << >>) =>
                      \E chart \in r.chart_data : chart.type = "line"
                /\ e.type = "aggregation" =>
                      \/ \E chart \in r.chart_data : chart.type = "metrics"
                      \/ \E k \in 1..Len(r.visualizations) : r.visualizations[k] = "metrics"

\* C16: Session isolation.  No value of the process that another session
\* writes is read by this agent: every request this agent sends to the remote
\* backend is sent with the credential of its own session.
C16_SessionIsolation ==
    [][ ( /\ pc = "remote_model"
          /\ Len(attempts') > Len(attempts)
          /\ ~CreateOpenaiPromptRaises(Questions[question], current_data) ) =>
            openai_api_key = api_key ]_vars

\* C17: The data frame is read-only during ask and swapped atomically by
\* load_data.  No step of an ask changes the data frame or its summary, and
\* whenever ask can be called on a loaded data frame the stored summary is the
\* summary of that data frame, also after a load_data that failed part-way.
C17_AtomicSwap ==
    /\ [](( pc = "idle" /\ current_data # None ) => data_summary = {Summary(current_data)})
    /\ [][ pc # "idle" => UNCHANGED << current_data, data_summary >> ]_vars

\* C18: Confidence formula.  The confidence of the rule-based pipeline is
\* min(0.99, raw + rowBonus + resultBonus + columnBonus) rounded to two
\* decimals: raw the classifier's confidence, rowBonus 0.10 from 30 rows and
\* 0.05 from 10 to 29 rows, resultBonus 0.10 exactly when the result is not
\* empty, columnBonus 0.05 exactly when the question names a column (a column
\* that was only inferred from the vocabulary earns nothing).
C18_ConfidenceFormula ==
    \A r \in result :
        "intent" \in DOMAIN r =>
            \A e \in r.data :
                LET rowBonus == IF RowCount(current_data) >= 30 THEN 1000
                                ELSE IF RowCount(current_data) >= 10 THEN 500
                                ELSE 0
                    resultBonus == IF e.keys # {} THEN 1000 ELSE 0
                    columnBonus ==
                        IF \E i \in 1..Len(Columns(current_data)) :
                              ColumnNamed(Columns(current_data)[i], Lower(Questions[question]))
                        THEN 500 ELSE 0
                    total == r.intent.confidence + rowBonus + resultBonus + columnBonus
                IN  r.confidence = Round2(IF total < 9900 THEN total ELSE 9900)

\* C19: The vague-phrase rule is gated by the word count.  A question is
\* rejected by the vague-phrase rule only if it has fewer than 6 words: no
\* question of 6 or more words is rejected by that rule, whatever its length in
\* characters.
C19_VagueRuleWordGated ==
    \A v \in vague_response :
        v.rule = "vague" => Len(Split(Strip(Lower(Questions[question])))) < 6

\* C20: Short-question rule.  Every question of fewer than 6 words that has no
\* data keyword and references no column of the data frame (by its name or its
\* name with underscores as spaces) is rejected by the gate, and the rule
\* rejects no question that has a data keyword or references a column.
C20_ShortQuestionRule ==
    \A v \in vague_response :
        ~v.raised =>
            LET question_lower == Strip(Lower(Questions[question]))
                specific ==
                    \/ AnyContained(data_keywords, question_lower)
                    \/ \E i \in 1..Len(Columns(current_data)) :
                          ColumnNamed(Columns(current_data)[i], question_lower)
            IN  /\ (Len(Split(question_lower)) < 6 /\ ~specific) => v.is_vague
                /\ v.rule = "short" => ~specific

(***************************************************************************)
(* Properties of the Relevance Gate's rules                                *)
(***************************************************************************)

\* C21: Off-topic rule.  Every question that contains a keyword of the
\* off-topic deny-list, at any position and whatever data keywords or column
\* names it also contains, is rejected by the gate: whenever the gate has been
\* evaluated in an ask of such a question, it did not raise, its result says
\* is_vague, and no tier is attempted in that ask.
C21_OffTopicRule ==
    \A v \in vague_response :
        (\E k \in 1..Len(irrelevant_keywords) :
            Contains(irrelevant_keywords[k], Lower(Questions[question])))
        => /\ ~v.raised
           /\ v.is_vague
           /\ attempts = << >>
           /\ pc = "done"

\* the gate has rejected 'revenue weather trend' on the orders frame: the
\* keyword stands between two data keywords, and `revenue` is a column
C21_OffTopicAmongDataWords ==
    /\ current_data = "orders"
    /\ question # 0
    /\ Questions[question] = <<"r","e","v","e","n","u","e"," ","w","e","a","t","h","e","r"," ","t","r","e","n","d">>
    /\ AnyContained(data_keywords, Questions[question])
    /\ ColumnScan(Columns(current_data), Questions[question], 1) = "mentioned"
    /\ \E v \in vague_response : v.is_vague /\ v.keyword = <<"w","e","a","t","h","e","r">>
    /\ pc = "done"
    /\ \E e \in result : e.answer.about = <<"w","e","a","t","h","e","r">>

\* C22: Gate accepts well-formed analytic questions.  Every question that is
\* no greeting, contains no keyword of the off-topic deny-list as a whole word
\* or phrase, contains no vague phrase, and contains a data keyword or the name
\* of a column of the data frame (whose labels are all strings) is accepted by
\* the gate: is_vague is false, and the ask ends with a tier attempted.
C22_GateAcceptsAnalyticQuestions ==
    \A v \in vague_response :
        LET q     == Strip(Lower(Questions[question]))
            words == Split(q)
            cols  == Columns(current_data)
            HasPhrase(p) ==
                \E i \in 1..Len(words) :
                    /\ i + Len(Split(p)) - 1 <= Len(words)
                    /\ SubSeq(words, i, i + Len(Split(p)) - 1) = Split(p)
        IN  ( /\ ~InList(q, greetings)
              /\ \A k \in 1..Len(irrelevant_keywords) : ~HasPhrase(irrelevant_keywords[k])
              /\ \A k \in 1..Len(vague_patterns) : ~Contains(vague_patterns[k], q)
              /\ \A i \in 1..Len(cols) : cols[i].label.str
              /\ \/ \E k \in 1..Len(data_keywords) : Contains(data_keywords[k], q)
                 \/ ColumnScan(cols, q, 1) = "mentioned" )
            => /\ ~v.raised
               /\ ~v.is_vague
               /\ pc = "done" => attempts # << >>

\* C23: Gate purity.  Evaluating the Relevance Gate has no side effect: the
\* step of an ask that evaluates the gate, and a whole ask that the gate
\* rejects (or in which it raises), leave the data frame, the data summary and
\* the conversation context as they were; the result the ask holds is the
\* result of evaluating the gate again on the same question and state; and
\* the rule-based pipeline run as the deterministic tier, which evaluates the
\* gate a second time, never returns the gate's rejection after the
\* orchestrator's check accepted the question.
C23_GatePurity ==
    [][ /\ pc = "gate_check"
           => UNCHANGED << current_data, data_summary, conversation_context >>
        /\ (pc = "smart_ask" /\ \E v \in vague_response' : v.raised \/ v.is_vague)
           => UNCHANGED << current_data, data_summary, conversation_context >>
        /\ \A v \in vague_response' :
               v = CheckIfVagueOrIrrelevant(Questions[question'], current_data',
                                            data_summary')
        /\ (pc = "deterministic" /\ pc' = "done")
           => /\ \A v \in vague_response' : ~v.is_vague
              /\ \A e \in result' : "is_vague" \notin DOMAIN e
      ]_vars

\* the deterministic tier of the orchestrator has answered a question that the
\* first gate check accepted: the gate was evaluated twice in this ask
C23_GateEvaluatedTwice ==
    /\ agent = "OpenAIAnalyticsAgent"
    /\ pc = "done"
    /\ attempts # << >>
    /\ attempts[Len(attempts)] = "deterministic"
    /\ \E v \in vague_response : ~v.raised /\ ~v.is_vague /\ v.rule = "valid"
    /\ \E e \in result : e.source = "fallback" /\ "is_vague" \notin DOMAIN e
    /\ conversation_context # << >>

(***************************************************************************)
(* Properties of the Intent Classifier                                     *)
(***************************************************************************)

\* C24: Classifier arg-max with stable tie-break.  What match_intent returns
\* is the category and the score of the corpus entry with the greatest score
\* (similarity of the expanded question and the phrase, times the base
\* confidence) over the whole corpus, of the entries with that score the first
\* in corpus order, and the score lies in [0, 1].
C24_ArgMaxFirstWins ==
    matcher.returned
    => LET scores == Scores(ExpandWithSynonyms(Strip(Lower(Questions[matcher.query]))))
           top    == SetMax({scores[m] : m \in 1..Len(scores)})
           first  == SetMin({m \in 1..Len(scores) : scores[m] = top})
       IN  /\ matcher.best_intent = intent_patterns[first].intent
           /\ matcher.best_score = top
           /\ matcher.best_score >= 0
           /\ matcher.best_score <= One

\* C25: No confidence floor.  For every question, also one whose best score
\* against the corpus is zero, match_intent returns the category of a corpus
\* entry with that score and never the category 'unknown'.
C25_NoConfidenceFloor ==
    matcher.returned
    => /\ matcher.best_intent # "unknown"
       /\ \E m \in 1..Len(intent_patterns) :
              /\ intent_patterns[m].intent = matcher.best_intent
              /\ Score(ExpandWithSynonyms(Strip(Lower(Questions[matcher.query]))), m)
                   = matcher.best_score

(***************************************************************************)
(* Properties of the deterministic pipeline's stages                       *)
(***************************************************************************)

\* C26: Dispatched category is the classified category.  In every envelope of
\* the rule-based pipeline, the category of the intent, which selects the
\* Dispatcher's strategy and tags the result, is the category that match_intent
\* returned for the question, and the intent's confidence is the score
\* match_intent returned with it.
C26_DispatchedIsClassified ==
    \A e \in result :
        "intent" \in DOMAIN e
        => /\ e.intent.question_type = matched_intents[question].intent
           /\ \A analytics \in e.data : analytics.type = matched_intents[question].intent
           /\ e.intent.confidence = matched_intents[question].confidence

\* C27: Aggregation default column.  The aggregation strategy computes sum,
\* mean and non-null count for every numeric column the question refers to
\* (the intent's target columns), and when the question refers to no column
\* it computes the three for the first numeric column of the data frame.
C27_AggregationDefaultColumn ==
    \A e \in result :
        "intent" \in DOMAIN e
        => \A analytics \in e.data :
               analytics.type = "aggregation"
               => LET cols     == Columns(current_data)
                      numeric  == Labels(SelectDtypes(cols, "number"))
                      targets  == e.intent.target_columns
                      Stats(c) == {<< c, stat >> : stat \in {"total", "average", "count"}}
                  IN  /\ \A k \in 1..Len(targets) :
                             InList(targets[k], numeric)
                             => Stats(targets[k]) \subseteq analytics.keys
                      /\ (targets = << >> /\ numeric # << >>)
                         => analytics.keys = Stats(numeric[1])

\* C28: Trend direction dead-band.  For every trend over at least two dates,
\* with m1 the mean of the first floor(n/2) daily sums and m2 the mean of the
\* others, the direction is 'increasing' exactly when the relative change
\* (m2 - m1) / m1 is above +5%, 'decreasing' exactly when it is below -5%, and
\* 'stable' otherwise, for positive and for negative m1 (m1 = s1 / n1 and
\* m2 = s2 / n2, compared without dividing; m1 = 0, where the relative change
\* is not defined, is left out).
C28_TrendDeadBand ==
    \A e \in result :
        "intent" \in DOMAIN e
        => \A analytics \in e.data :
               (analytics.type = "trend_analysis" /\ Len(analytics.values) >= 2)
               => LET n  == Len(analytics.values)
                      n1 == n \div 2
                      n2 == n - n1
                      s1 == SumOver(analytics.values, 1..n1)
                      s2 == SumOver(analytics.values, (n1 + 1)..n)
                      d  == s2 * n1 - s1 * n2
                      b  == s1 * n2
                  IN  b # 0
                      => analytics.direction =
                           IF (b > 0 /\ 20 * d > b) \/ (b < 0 /\ 20 * d < b)
                           THEN "increasing"
                           ELSE IF (b > 0 /\ 20 * d < -b) \/ (b < 0 /\ 20 * d > -b)
                           THEN "decreasing"
                           ELSE "stable"

\* C29: Conversation context is append-only.  No step of ask or load_data
\* removes, reorders or modifies an entry of the conversation context; a step
\* appends at most one entry; an ask without data or rejected by the gate
\* appends none; and when an ask ends with the answer of a tier (the remote or
\* the local backend's, or the rule-based pipeline's) to a question that passed
\* the gate, its last step has appended the entry of that question.
C29_ContextAppendOnly ==
    [][ /\ Len(conversation_context') >= Len(conversation_context)
        /\ Len(conversation_context') <= Len(conversation_context) + 1
        /\ SubSeq(conversation_context', 1, Len(conversation_context)) = conversation_context
        /\ (\/ current_data = None
            \/ \E v \in vague_response' : v.raised \/ v.is_vague)
           => conversation_context' = conversation_context
        /\ ( /\ pc # "done"
             /\ pc' = "done"
             /\ \E v \in vague_response' : ~v.raised /\ ~v.is_vague
             /\ \E e \in result' :
                    \/ "intent" \in DOMAIN e
                    \/ "source" \in DOMAIN e /\ e.source \in {"openai", "ollama", "fallback"} )
           => /\ Len(conversation_context') = Len(conversation_context) + 1
              /\ conversation_context'[Len(conversation_context')].question
                   = Questions[question]
      ]_vars

====
